---- MODULE Spec2Model ----
(***************************************************************************)
(* YCluster node identity allocation (admin API, app.py) and the DHCP      *)
(* lease protocol engine (scripts/dhcp-server.py) over a shared etcd       *)
(* store.                                                                  *)
(*                                                                         *)
(* Strings the code parses (hostnames) are sequences of one-character      *)
(* strings, so that hostname[0], hostname[1:], endswith('a') and int()     *)
(* are computed as the code computes them.  IPv4 addresses are 4-tuples of *)
(* octets; Python's None is the empty tuple for addresses and the token    *)
(* NoneStr for strings.  An optional record is a sequence of length 0      *)
(* (absent) or 1.                                                          *)
(***************************************************************************)
EXTENDS Integers, Sequences, FiniteSets, TLC

(* ------------------------------------------------------------------ *)
(* Program constants                                                  *)
(* ------------------------------------------------------------------ *)
LEASE_TIME == 43200
DYNAMIC_IP_START == 200
DYNAMIC_IP_END == 249
RangeMax == 20
BaseS == 10
BaseC == 50
BaseM == 90

(* Bounds of the model *)
MaxTicks == 1
MaxStarts == 2

NoneStr == <<"None">>
NoneIp == <<>>
EmptyStr == <<>>

Truthy(s) == s # NoneStr /\ s # EmptyStr

DigitChars == <<"0", "1", "2", "3", "4", "5", "6", "7", "8", "9">>

IsDigit(c) == \E i \in 1..10 : DigitChars[i] = c

DigitVal(c) == (CHOOSE i \in 1..10 : DigitChars[i] = c) - 1

RECURSIVE DigitsVal(_)
DigitsVal(s) ==
    IF Len(s) = 0 THEN 0
    ELSE DigitsVal(SubSeq(s, 1, Len(s) - 1)) * 10 + DigitVal(s[Len(s)])

AllDigits(s) == Len(s) > 0 /\ \A i \in 1..Len(s) : IsDigit(s[i])

(* Python int(str) on the characters the model uses: an optional sign     *)
(* followed by one or more decimal digits (leading zeros are accepted);   *)
(* anything else raises ValueError.                                       *)
IntOk(s) ==
    IF Len(s) > 0 /\ s[1] \in {"+", "-"} THEN AllDigits(Tail(s)) ELSE AllDigits(s)

IntVal(s) ==
    IF s[1] = "-" THEN 0 - DigitsVal(Tail(s))
    ELSE IF s[1] = "+" THEN DigitsVal(Tail(s))
    ELSE DigitsVal(s)

(* str(n) for n >= 0, as an f-string formats it *)
RECURSIVE IntStr(_)
IntStr(n) ==
    IF n < 10 THEN <<DigitChars[n + 1]>>
    ELSE IntStr(n \div 10) \o <<DigitChars[(n % 10) + 1]>>

EndsWithA(s) == Len(s) > 0 /\ s[Len(s)] = "a"

(* IP_RANGES: prefix -> base; max is RangeMax for every prefix *)
InIpRanges(p) == p \in {"s", "c", "m"}

(* bases that leave ten addresses to storage *)
RangeBaseClose(p) == IF p = "s" THEN BaseS ELSE IF p = "c" THEN BaseS + 10 ELSE BaseM

RangeBase(p) == IF p = "s" THEN BaseS ELSE IF p = "c" THEN BaseC ELSE BaseM

(* The numeric part the code hands to int(): hostname[1:-1] for an AMT   *)
(* name, hostname[1:] otherwise.                                          *)
NumPart(hostname) ==
    IF EndsWithA(hostname) THEN SubSeq(hostname, 2, Len(hostname) - 1)
    ELSE Tail(hostname)

(* an address built from the number alone, without the range's base *)
BuildIpNoBase(hostname) ==
    LET n == IntVal(NumPart(hostname)) IN
    IF EndsWithA(hostname) THEN <<10, 10, 10, n>> ELSE <<10, 0, 0, n>>

(* The address both determine_ip_from_hostname versions build once the   *)
(* prefix and the number have been accepted.                              *)
BuildIp(hostname) ==
    LET n == RangeBase(hostname[1]) + IntVal(NumPart(hostname)) IN
    IF EndsWithA(hostname) THEN <<10, 10, 10, n>> ELSE <<10, 0, 0, n>>

(* Outcome of determine_ip_from_hostname: kind "ip" with the address,     *)
(* "none" (the function returns None) or "raise" (ValueError escapes).    *)
IpOutcome(k, a) == [kind |-> k, ip |-> a]

(* app.py determine_ip_from_hostname: out of range raises ValueError *)
HttpDetermineIp(hostname) ==
    IF ~Truthy(hostname) THEN IpOutcome("none", NoneIp)
    ELSE IF ~IntOk(NumPart(hostname)) THEN IpOutcome("none", NoneIp)
    ELSE IF ~InIpRanges(hostname[1]) THEN IpOutcome("none", NoneIp)
    ELSE IF IntVal(NumPart(hostname)) < 1 \/ IntVal(NumPart(hostname)) > RangeMax
         THEN IpOutcome("raise", NoneIp)
    ELSE IpOutcome("ip", BuildIp(hostname))

(* dhcp-server.py DHCPServer.determine_ip_from_hostname: out of range     *)
(* returns None                                                           *)
DhcpDetermineIp(hostname) ==
    IF ~Truthy(hostname) THEN NoneIp
    ELSE IF ~IntOk(NumPart(hostname)) THEN NoneIp
    ELSE IF ~InIpRanges(hostname[1]) THEN NoneIp
    ELSE IF IntVal(NumPart(hostname)) < 1 \/ IntVal(NumPart(hostname)) > RangeMax
         THEN NoneIp
    ELSE BuildIp(hostname)

(* ------------------------------------------------------------------ *)
(* MAC addresses                                                      *)
(* ------------------------------------------------------------------ *)
MacS1 == "58:47:ca:01:02:03"
MacS2 == "58:47:ca:01:02:04"
MacC1 == "aa:bb:cc:00:00:01"

Macs == {MacS1, MacS2, MacC1}

(* the first MAC as an older release wrote it *)
MacS1Dashed == "58-47-CA-01-02-03"

(* mac.lower().replace(':', '').replace('-', '') on the model's MACs *)
Normalize(mac) ==
    CASE mac = MacS1 -> "5847ca010203"
      [] mac = MacS1Dashed -> "5847ca010203"
      [] mac = MacS2 -> "5847ca010204"
      [] mac = MacC1 -> "aabbcc000001"

(* normalized_mac.startswith('5847ca') *)
HasStorageOui(nmac) == nmac \in {"5847ca010203", "5847ca010204"}

determine_type_from_mac(mac) ==
    IF HasStorageOui(Normalize(mac)) THEN "storage" ELSE "compute"

determine_type_from_hostname(hostname) ==
    IF ~Truthy(hostname) THEN "compute"
    ELSE IF hostname[1] = "s" THEN "storage"
    ELSE IF hostname[1] = "c" THEN "compute"
    ELSE IF hostname[1] = "m" THEN "macos"
    ELSE "compute"

TypePrefix(node_type) ==
    IF node_type = "storage" THEN "s"
    ELSE IF node_type = "macos" THEN "m"
    ELSE "c"

(* ------------------------------------------------------------------ *)
(* Store helpers: a key space is a function whose domain is the set   *)
(* of keys present.                                                   *)
(* ------------------------------------------------------------------ *)
EmptyMap == [x \in {} |-> 0]

Has(f, k) == k \in DOMAIN f

Put(f, k, v) == [x \in DOMAIN f \cup {k} |-> IF x = k THEN v ELSE f[x]]

Del(f, k) == [x \in DOMAIN f \ {k} |-> f[x]]

(* client.get: zero or one record *)
Get(f, k) == IF Has(f, k) THEN <<f[k]>> ELSE <<>>

(* ------------------------------------------------------------------ *)
(* State                                                              *)
(* ------------------------------------------------------------------ *)
VARIABLES
    byMac,          \* /cluster/nodes/by-mac/{normalized_mac}
    byHost,         \* /cluster/nodes/by-hostname/{hostname}
    etcdLeases,     \* /cluster/dhcp/leases/{normalized_mac}
    hpc,            \* HTTP worker -> position in get_or_create_allocation
    hmac,           \* HTTP worker -> mac_address argument
    hdata,          \* HTTP worker -> allocation_data built under the lock
    hret,           \* HTTP worker -> what the call returned
    lock,           \* HTTP process -> holder of allocation_lock
    leases,         \* DHCPServer.leases
    allocated_ips,  \* DHCPServer.allocated_ips
    now,            \* wall clock, seconds
    dpc,            \* position of the packet handler
    pkt,            \* the packet being handled
    dloc,           \* locals of allocate_hostname_and_ip
    reply,          \* what the handler sent for pkt
    lastOffer,      \* history: the last OFFER of a completed DISCOVER, until the
                    \* MAC sends a REQUEST or the clock advances
    spc,            \* position of the cleanup thread
    expired_macs,   \* cleanup thread's expired_macs
    hname,          \* the hostname handed to determine_ip_from_hostname
    httpOut,        \* outcome of app.py determine_ip_from_hostname(hname)
    dhcpOut,        \* outcome of DHCPServer.determine_ip_from_hostname(hname)
    dprev,          \* history: an earlier hostname with its two outcomes
    ntype,          \* the node_type handed to get_next_hostname
    nhttp,          \* what app.py get_next_hostname returned
    ndhcp,          \* what DHCPServer.get_next_hostname returned
    up,             \* the etcd endpoints whose status() succeeds at present
    cached,         \* etcd_utils._CACHED_CLIENT
    cpc,            \* position of the etcd_utils.get_etcd_client call
    cmax,           \* its max_retries argument
    cpass,          \* connect_with_retry: the pass in progress
    cidx,           \* connect_with_retry: the endpoint to try next
    tried,          \* history: the endpoints the call has tried, in order
    cret,           \* what the call returned or raised
    etcd_client,    \* DHCPServer.etcd_client
    running,        \* DHCPServer.running
    gpc,            \* position of the health handler's do_GET
    gpath,          \* the path it serves
    spos,           \* position of DHCPServer.start()
    snap,           \* the get_prefix result the startup loop runs over
    sidx,           \* the entry of snap it handles next
    serr,           \* history: a store call of a startup has failed
    sruns           \* how many times the server has been started

storeVars == <<byMac, byHost, etcdLeases>>
httpVars == <<hpc, hmac, hdata, hret, lock>>
leaseVars == <<leases, allocated_ips>>
handlerVars == <<dpc, pkt, dloc, reply, lastOffer>>
sweepVars == <<spc, expired_macs>>
dhcpVars == <<leaseVars, handlerVars, sweepVars>>
nameVars == <<dprev, ntype, nhttp, ndhcp>>
deriveVars == <<hname, httpOut, dhcpOut, nameVars>>
(* state of the parts that run apart from allocation and packet handling *)
clientVars == <<up, cached, cpc, cmax, cpass, cidx, tried, cret>>
healthVars == <<etcd_client, running, gpc, gpath>>
startVars == <<spos, snap, sidx, serr, sruns>>
auxVars == <<deriveVars, clientVars, healthVars, startVars>>
vars == <<storeVars, httpVars, dhcpVars, now, auxVars>>

(* ------------------------------------------------------------------ *)
(* Hostname allocator (app.py get_next_hostname)                      *)
(* ------------------------------------------------------------------ *)
(* keys under by-hostname/{prefix} whose hostname[1:] int() accepts *)
NumberedKeys(store, prefix) ==
    {h \in DOMAIN store : Len(h) > 0 /\ h[1] = prefix /\ IntOk(Tail(h))}

(* existing_numbers after sort(): one entry per key, duplicates kept *)
RECURSIVE SortedNumbers(_)
SortedNumbers(keys) ==
    IF keys = {} THEN <<>>
    ELSE LET h == CHOOSE x \in keys : \A y \in keys : IntVal(Tail(x)) <= IntVal(Tail(y))
         IN <<IntVal(Tail(h))>> \o SortedNumbers(keys \ {h})

(* first index whose entry is not the index, else len + 1 *)
FirstGap(nums) ==
    IF \E i \in 1..Len(nums) : nums[i] # i
    THEN CHOOSE i \in 1..Len(nums) : nums[i] # i /\ \A j \in 1..(i - 1) : nums[j] = j
    ELSE Len(nums) + 1

get_next_hostname(store, node_type) ==
    <<TypePrefix(node_type)>>
        \o IntStr(FirstGap(SortedNumbers(NumberedKeys(store, TypePrefix(node_type)))))

(* ------------------------------------------------------------------ *)
(* HTTP API: get_or_create_allocation (app.py)                        *)
(* ------------------------------------------------------------------ *)
Workers == {"p1t1", "p1t2", "p2t1"}

ProcOf(w) == IF w = "p2t1" THEN "p2" ELSE "p1"

Procs == {"p1", "p2"}

NoHolder == "free"

(* amt_ip is a sequence: empty when the key is absent from the JSON *)
AllocRec(hostname, type, ip, amt, mac) ==
    [hostname |-> hostname, type |-> type, ip |-> ip, amt_ip |-> amt, mac |-> mac]

Returned(kind, rec) == [kind |-> kind, rec |-> rec]

NoReturn == Returned("none", <<>>)
ErrReturn == Returned("error", <<>>)

(* 'amt_ip' not in data: fill it in from hostname + 'a' (line 223) *)
Backfill(data) ==
    IF Len(data.amt_ip) = 0
    THEN [data EXCEPT !.amt_ip = <<HttpDetermineIp(data.hostname \o <<"a">>).ip>>]
    ELSE data

BackfillRaises(data) ==
    Len(data.amt_ip) = 0 /\ HttpDetermineIp(data.hostname \o <<"a">>).kind = "raise"

HttpFinish(w, ret) ==
    /\ hpc' = [hpc EXCEPT ![w] = "done"]
    /\ hret' = [hret EXCEPT ![w] = ret]
    /\ lock' = IF lock[ProcOf(w)] = w THEN [lock EXCEPT ![ProcOf(w)] = NoHolder] ELSE lock

(* lines 215-226: obtain the client, first read of by-mac *)
HttpFirstRead(w, mac) ==
    /\ hpc[w] = "idle"
    /\ hmac' = [hmac EXCEPT ![w] = mac]
    /\ \/ HttpFinish(w, ErrReturn)
       \/ /\ Has(byMac, Normalize(mac))
          /\ IF BackfillRaises(byMac[Normalize(mac)])
             THEN HttpFinish(w, ErrReturn)
             ELSE HttpFinish(w, Returned("ok", <<Backfill(byMac[Normalize(mac)])>>))
       \/ /\ ~Has(byMac, Normalize(mac))
          /\ hpc' = [hpc EXCEPT ![w] = "lock"]
          /\ UNCHANGED <<hret, lock>>
    /\ UNCHANGED <<storeVars, hdata, dhcpVars, now, auxVars>>

(* a with-statement that enters whoever holds the lock *)
HttpAcquireUnlocked(w) ==
    /\ hpc[w] = "lock"
    /\ lock' = [lock EXCEPT ![ProcOf(w)] = w]
    /\ hpc' = [hpc EXCEPT ![w] = "reread"]
    /\ UNCHANGED <<storeVars, hmac, hdata, hret, dhcpVars, now, auxVars>>

(* line 230: with allocation_lock *)
HttpAcquire(w) ==
    /\ hpc[w] = "lock"
    /\ lock[ProcOf(w)] = NoHolder
    /\ lock' = [lock EXCEPT ![ProcOf(w)] = w]
    /\ hpc' = [hpc EXCEPT ![w] = "reread"]
    /\ UNCHANGED <<storeVars, hmac, hdata, hret, dhcpVars, now, auxVars>>

(* lines 232-234: double-check after acquiring the lock *)
HttpReread(w) ==
    /\ hpc[w] = "reread"
    /\ \/ HttpFinish(w, ErrReturn)
       \/ /\ Has(byMac, Normalize(hmac[w]))
          /\ HttpFinish(w, Returned("ok", <<byMac[Normalize(hmac[w])]>>))
       \/ /\ ~Has(byMac, Normalize(hmac[w]))
          /\ hpc' = [hpc EXCEPT ![w] = "scan"]
          /\ UNCHANGED <<hret, lock>>
    /\ UNCHANGED <<storeVars, hmac, hdata, dhcpVars, now, auxVars>>

(* lines 237-249: classify, scan by-hostname/{prefix}, derive, build *)
HttpBuild(store, mac) ==
    LET machine_type == determine_type_from_mac(mac)
        hostname == get_next_hostname(store, machine_type)
    IN AllocRec(hostname, machine_type, HttpDetermineIp(hostname).ip,
                <<HttpDetermineIp(hostname \o <<"a">>).ip>>, Normalize(mac))

HttpBuildRaises(store, mac) ==
    LET hostname == get_next_hostname(store, determine_type_from_mac(mac))
    IN HttpDetermineIp(hostname).kind = "raise"
         \/ HttpDetermineIp(hostname \o <<"a">>).kind = "raise"

HttpScan(w) ==
    /\ hpc[w] = "scan"
    /\ \/ HttpFinish(w, ErrReturn) /\ UNCHANGED hdata
       \/ /\ HttpBuildRaises(byHost, hmac[w])
          /\ HttpFinish(w, ErrReturn)
          /\ UNCHANGED hdata
       \/ /\ ~HttpBuildRaises(byHost, hmac[w])
          /\ hdata' = [hdata EXCEPT ![w] = <<HttpBuild(byHost, hmac[w])>>]
          /\ hpc' = [hpc EXCEPT ![w] = "txn"]
          /\ UNCHANGED <<hret, lock>>
    /\ UNCHANGED <<storeVars, hmac, dhcpVars, now, auxVars>>

(* compare=[version(by-mac) == 0, version(by-hostname) == 0] *)
HttpCompare(data) ==
    ~Has(byMac, data.mac) /\ ~Has(byHost, data.hostname)

(* a transaction that puts whatever the comparison says *)
HttpTxnMacUnguarded(data) == Put(byMac, data.mac, data)

(* success=[put by-mac, put by-hostname], failure=[] *)
HttpTxnMac(data) == IF HttpCompare(data) THEN Put(byMac, data.mac, data) ELSE byMac

HttpTxnHost(data) == IF HttpCompare(data) THEN Put(byHost, data.hostname, data) ELSE byHost

(* line 265: return allocation_data *)
HttpTxnReturn(data) == Returned("ok", <<data>>)

(* lines 251-265 *)
HttpTxn(w) ==
    /\ hpc[w] = "txn"
    /\ \/ HttpFinish(w, ErrReturn) /\ UNCHANGED <<byMac, byHost>>
       \/ /\ byMac' = HttpTxnMac(hdata[w][1])
          /\ byHost' = HttpTxnHost(hdata[w][1])
          /\ HttpFinish(w, HttpTxnReturn(hdata[w][1]))
    /\ UNCHANGED <<etcdLeases, hmac, hdata, dhcpVars, now, auxVars>>

(* the caller has consumed the result; the worker serves the next request *)
HttpReturn(w) ==
    /\ hpc[w] = "done"
    /\ hpc' = [hpc EXCEPT ![w] = "idle"]
    /\ hmac' = [hmac EXCEPT ![w] = MacS1]
    /\ hdata' = [hdata EXCEPT ![w] = <<>>]
    /\ hret' = [hret EXCEPT ![w] = NoReturn]
    /\ UNCHANGED <<storeVars, lock, dhcpVars, now, auxVars>>

HttpNext(w) ==
    \/ \E mac \in Macs : HttpFirstRead(w, mac)
    \/ HttpAcquire(w)
    \/ HttpReread(w)
    \/ HttpScan(w)
    \/ HttpTxn(w)
    \/ HttpReturn(w)

(* ------------------------------------------------------------------ *)
(* DHCP engine (scripts/dhcp-server.py)                               *)
(* ------------------------------------------------------------------ *)
ServerIp == <<10, 0, 0, 11>>
OtherServerIp == <<10, 0, 0, 12>>

HostS1 == <<"s", "1">>
HostC1 == <<"c", "1">>
HostC01 == <<"c", "0", "1">>
HostC1a == <<"c", "1", "a">>
HostFoo == <<"f", "o", "o">>
HostLocalhost == <<"l", "o", "c", "a", "l", "h", "o", "s", "t">>
HostUbuntuServer ==
    <<"u", "b", "u", "n", "t", "u", "-", "s", "e", "r", "v", "e", "r">>

(* ['ubuntu-server', 'localhost', ''] *)
TemporaryHostnames == {HostUbuntuServer, HostLocalhost, EmptyStr}

(* hostname options a client may send; NoneStr: no hostname option *)
HostOpts ==
    {NoneStr, EmptyStr, HostLocalhost, HostUbuntuServer,
     HostC1, HostC01, HostC1a, HostFoo}

(* the options of the second client, which is there to compete for names *)
RivalOpts == {NoneStr, HostC1, HostC01}

OptsOf(mac) == IF mac = MacS1 THEN HostOpts ELSE RivalOpts

(* requested_addr options; NoneIp: no such option *)
ReqAddrs == {NoneIp, <<10, 0, 0, 51>>, <<10, 0, 0, 200>>}

ServerIds == {NoneIp, ServerIp, OtherServerIp}

(* packet[Ether].src is lower-case colon form *)
DhcpMacs == {MacS1, MacC1}

Packet(kind, mac, hostname, addr, sid) ==
    [kind |-> kind, mac |-> mac, hostname |-> hostname,
     requested_addr |-> addr, server_id |-> sid]

(* get_or_create_lease never reads requested_ip, and handle_dhcp_discover *)
(* never reads server_id: DISCOVERs are enumerated without them.          *)
Discovers ==
    {Packet("DISCOVER", x[1], x[2], NoneIp, NoneIp) :
        x \in {y \in DhcpMacs \X HostOpts : y[2] \in OptsOf(y[1])}}

(* REQUESTs naming this server, with every hostname option; REQUESTs    *)
(* without a server identifier or naming another server, with a durable *)
(* hostname option or none                                              *)
Requests ==
    {Packet("REQUEST", x[1], x[2], x[3], ServerIp) :
        x \in {y \in DhcpMacs \X HostOpts \X ReqAddrs : y[2] \in OptsOf(y[1])}}
    \cup {Packet("REQUEST", MacS1, x[1], x[2], x[3]) :
            x \in {NoneStr, HostC01} \X (ReqAddrs \ {NoneIp})
                    \X (ServerIds \ {ServerIp})}

Packets == Discovers \cup Requests

NoPacket == Packet("none", MacS1, NoneStr, NoneIp, NoneIp)

Reply(type, ip, hostname) == [type |-> type, ip |-> ip, hostname |-> hostname]

NoReply == Reply("none", NoneIp, NoneStr)
Dropped == Reply("dropped", NoneIp, NoneStr)
Ignored == Reply("ignored", NoneIp, NoneStr)
Nak == Reply("NAK", NoneIp, NoneStr)

Lease(mac, ip, hostname, expires) ==
    [mac |-> mac, ip |-> ip, hostname |-> hostname, expires |-> expires]

(* locals of allocate_hostname_and_ip between store calls; via is the *)
(* branch of the caller that led to the allocation                   *)
Locals(existing, req, hostname, ip, type) ==
    [existing |-> existing, req |-> req, hostname |-> hostname, ip |-> ip,
     type |-> type, via |-> "none"]

NoLocals == Locals(<<>>, NoneStr, NoneStr, NoneIp, "none")

NoOffer == [mac |-> MacS1, hostname |-> NoneStr, ip |-> NoneIp]

(* The lease mirror under /cluster/dhcp/leases/ is written by packet     *)
(* handling and read only at startup: a behaviour that starts with the   *)
(* mirror switched off leaves it out.                                    *)
MirrorOff == [x \in {"off"} |-> 0]

SaveLease(store, key, lease) == IF store = MirrorOff THEN store ELSE Put(store, key, lease)

(* lastOffer is a history variable: it is recorded only in behaviours *)
(* that start with it switched on                                     *)
OfferOff == [mac |-> "off", hostname |-> NoneStr, ip |-> NoneIp]

Track(offer) == IF lastOffer = OfferOff THEN OfferOff ELSE offer

(* a lease that still counts at the instant it expires *)
UnexpiredAtExpiry(lease) == lease.expires >= now

(* expires > datetime.now() *)
Unexpired(lease) == lease.expires > now

(* hostname or '' *)
OrEmpty(hostname) == IF Truthy(hostname) THEN hostname ELSE EmptyStr

(* a placeholder name that is handled like any other hostname *)
KeepsLeaseNoPlaceholders(mac, requested_hostname) ==
    /\ Has(leases, mac)
    /\ Unexpired(leases[mac])
    /\ ~(Truthy(requested_hostname) /\ leases[mac].hostname # requested_hostname)

(* get_or_create_lease lines 595-616: does the call return the existing *)
(* lease?                                                               *)
KeepsLease(mac, requested_hostname) ==
    /\ Has(leases, mac)
    /\ Unexpired(leases[mac])
    /\ \/ ~(Truthy(requested_hostname) /\ leases[mac].hostname # requested_hostname)
       \/ requested_hostname \in TemporaryHostnames

(* get_or_create_lease lines 595-616: the branch that goes on to        *)
(* allocate: no lease, lease expired, or hostname changed               *)
LeaseBranch(mac) ==
    IF ~Has(leases, mac) THEN "absent"
    ELSE IF ~Unexpired(leases[mac]) THEN "expired"
    ELSE "changed"

(* lines 606-607 and 615-616: the lease map when the call goes on to *)
(* allocate                                                          *)
LeasesAfterTeardown(mac) == IF Has(leases, mac) THEN Del(leases, mac) ELSE leases

IpsAfterTeardown(mac) ==
    IF Has(leases, mac) THEN allocated_ips \ {leases[mac].ip} ELSE allocated_ips

(* an AMT name that is handled like any other hostname *)
KeepAmt(requested_hostname) == requested_hostname

(* allocate_hostname_and_ip lines 388-390 *)
DropAmt(requested_hostname) ==
    IF Truthy(requested_hostname) /\ EndsWithA(requested_hostname)
    THEN NoneStr ELSE requested_hostname

(* handle_dhcp_request lines 709-726 *)
ShouldReallocate(mac, requested_hostname) ==
    /\ Truthy(requested_hostname)
    /\ Has(leases, mac)
    /\ requested_hostname \notin TemporaryHostnames
    /\ \/ leases[mac].hostname # requested_hostname
       \/ /\ DhcpDetermineIp(requested_hostname) # NoneIp
          /\ DhcpDetermineIp(requested_hostname) # leases[mac].ip

(* a validation that acknowledges whatever lease the MAC has *)
ValidateAnyLease(ls, mac, requested_ip) ==
    IF Has(ls, mac)
    THEN Reply("ACK", requested_ip, ls[mac].hostname)
    ELSE Nak

(* handle_dhcp_request lines 739-751 *)
Validate(ls, mac, requested_ip) ==
    IF Has(ls, mac) /\ ls[mac].ip = requested_ip
    THEN Reply("ACK", requested_ip, ls[mac].hostname)
    ELSE Nak

(* get_next_dynamic_ip lines 303-330: last octets in use, then the first *)
(* free one of the dynamic range                                         *)
UsedOctets(store, ls) ==
    {store[h].ip[4] : h \in {x \in DOMAIN store : Len(store[x].ip) = 4}}
        \cup {ls[m].ip[4] : m \in DOMAIN ls}

(* a scan of the dynamic range from its upper end *)
get_last_dynamic_ip(store, ls) ==
    LET free == {k \in DYNAMIC_IP_START..DYNAMIC_IP_END : k \notin UsedOctets(store, ls)}
    IN IF free = {} THEN NoneIp
       ELSE <<10, 0, 0, CHOOSE k \in free : \A j \in free : k >= j>>

get_next_dynamic_ip(store, ls) ==
    LET free == {k \in DYNAMIC_IP_START..DYNAMIC_IP_END : k \notin UsedOctets(store, ls)}
    IN IF free = {} THEN NoneIp
       ELSE <<10, 0, 0, CHOOSE k \in free : \A j \in free : k <= j>>

(* a tracking hostname that does not follow the address *)
DhcpHostnameOfStart(ip) == <<"d", "h", "c", "p", "-">> \o IntStr(DYNAMIC_IP_START)

(* f"dhcp-{last_octet}" *)
DhcpHostname(ip) == <<"d", "h", "c", "p", "-">> \o IntStr(ip[4])

(* ---- packet handler: one step per store call --------------------- *)

(* an exception leaves dhcp_packet_handler: sniff() ends and takes the *)
(* process with it                                                     *)
Crash ==
    /\ dpc' = "crashed"
    /\ dloc' = NoLocals
    /\ pkt' = NoPacket
    /\ UNCHANGED <<reply, leases, allocated_ips, lastOffer>>

(* allocate_hostname_and_ip returned (None, None): get_or_create_lease  *)
(* returns (None, None); DISCOVER sends nothing, REQUEST validates the  *)
(* packet's requested_addr                                              *)
AllocFailed ==
    /\ pkt' = pkt
    /\ dpc' = "replied"
    /\ reply' = IF pkt.kind = "DISCOVER" THEN Dropped
                ELSE Validate(leases, pkt.mac, pkt.requested_addr)
    /\ UNCHANGED <<dloc, leases, allocated_ips, lastOffer>>

(* get_or_create_lease lines 621-636: the lease enters the map *)
AllocDone(hostname, ip) ==
    IF ip = NoneIp THEN AllocFailed
    ELSE /\ pkt' = pkt
         /\ leases' = Put(leases, pkt.mac,
                          Lease(pkt.mac, ip, OrEmpty(hostname), now + LEASE_TIME))
         /\ allocated_ips' = allocated_ips \cup {ip}
         /\ dloc' = [dloc EXCEPT !.hostname = hostname, !.ip = ip]
         /\ dpc' = "save"
         /\ UNCHANGED <<reply, lastOffer>>

Goto(pc, loc) ==
    /\ pkt' = pkt
    /\ dpc' = pc
    /\ dloc' = loc
    /\ UNCHANGED <<reply, leases, allocated_ips, lastOffer>>

(* lines 467-473: old entries are removed first when reallocating *)
ToWrite(hostname, ip, type) ==
    Goto(IF Len(dloc.existing) = 1 /\ dloc.existing[1].hostname # hostname
         THEN "del" ELSE "txn",
         [dloc EXCEPT !.hostname = hostname, !.ip = ip, !.type = type])

(* what the handler does with the packet before its first store call *)
DiscoverStart(p) ==
    IF KeepsLease(p.mac, p.hostname)
    THEN /\ reply' = Reply("OFFER", leases[p.mac].ip, leases[p.mac].hostname)
         /\ dpc' = "replied"
         /\ UNCHANGED <<dloc, leases, allocated_ips, lastOffer>>
    ELSE /\ leases' = LeasesAfterTeardown(p.mac)
         /\ allocated_ips' = IpsAfterTeardown(p.mac)
         /\ dloc' = [Locals(<<>>, DropAmt(p.hostname), NoneStr, NoneIp, "none")
                        EXCEPT !.via = LeaseBranch(p.mac)]
         /\ dpc' = "getmac"
         /\ UNCHANGED <<reply, lastOffer>>

(* a server that answers whatever server the REQUEST names *)
AnyServerIsUs(p) == FALSE

(* handle_dhcp_request line 704: server_id and server_id != self.server_ip *)
NotForUs(p) == p.server_id # NoneIp /\ p.server_id # ServerIp

RequestStart(p) ==
    /\ lastOffer' = Track(IF lastOffer.mac = p.mac THEN NoOffer ELSE lastOffer)
    /\ IF NotForUs(p)
       THEN /\ reply' = Ignored
            /\ dpc' = "replied"
            /\ UNCHANGED <<dloc, leases, allocated_ips>>
       ELSE IF ShouldReallocate(p.mac, p.hostname)
       THEN /\ leases' = LeasesAfterTeardown(p.mac)
            /\ allocated_ips' = IpsAfterTeardown(p.mac)
            /\ dloc' = [Locals(<<>>, DropAmt(p.hostname), NoneStr, NoneIp, "none")
                           EXCEPT !.via = "request"]
            /\ dpc' = "getmac"
            /\ UNCHANGED reply
       ELSE /\ reply' = Validate(leases, p.mac, p.requested_addr)
            /\ dpc' = "replied"
            /\ UNCHANGED <<dloc, leases, allocated_ips>>

DhcpStart(p) ==
    /\ dpc = "idle"
    /\ pkt' = p
    /\ IF p.kind = "DISCOVER" THEN DiscoverStart(p) ELSE RequestStart(p)
    /\ UNCHANGED <<storeVars, httpVars, auxVars, sweepVars, now>>

(* allocate_hostname_and_ip lines 392-435: client, read of by-mac *)
AfterGetMac(existing) ==
    IF Len(existing) = 1
       /\ (~Truthy(dloc.req) \/ existing[1].hostname = dloc.req)
    THEN AllocDone(existing[1].hostname, existing[1].ip)
    ELSE IF Truthy(dloc.req) /\ DhcpDetermineIp(dloc.req) # NoneIp
    THEN Goto("gethost", [dloc EXCEPT !.existing = existing])
    ELSE Goto("dyn", [dloc EXCEPT !.existing = existing, !.req = NoneStr])

DhcpGetMac ==
    /\ dpc = "getmac"
    /\ \/ AllocFailed
       \/ Crash
       \/ AfterGetMac(Get(byMac, Normalize(pkt.mac)))
    /\ UNCHANGED <<storeVars, httpVars, auxVars, sweepVars, now>>

(* a check that finds no hostname taken *)
NeverTaken(taken, nmac) == FALSE

(* lines 416-432: is the requested hostname taken by another MAC? *)
TakenByOther(taken, nmac) == Len(taken) = 1 /\ taken[1].mac # nmac

AfterGetHost(taken) ==
    IF TakenByOther(taken, Normalize(pkt.mac))
    THEN Goto("dyn", [dloc EXCEPT !.req = NoneStr])
    ELSE ToWrite(dloc.req, DhcpDetermineIp(dloc.req),
                 determine_type_from_hostname(dloc.req))

DhcpGetHost ==
    /\ dpc = "gethost"
    /\ \/ Crash
       \/ AfterGetHost(Get(byHost, dloc.req))
    /\ UNCHANGED <<storeVars, httpVars, auxVars, sweepVars, now>>

(* lines 438-448: auto-allocation from the dynamic range *)
AfterDyn(ip) ==
    IF ip = NoneIp THEN AllocFailed
    ELSE ToWrite(DhcpHostname(ip), ip, determine_type_from_mac(pkt.mac))

DhcpDyn ==
    /\ dpc = "dyn"
    /\ \/ Crash
       \/ AfterDyn(get_next_dynamic_ip(byHost, leases))
    /\ UNCHANGED <<storeVars, httpVars, auxVars, sweepVars, now>>

(* line 473: client.delete(by-hostname/{old_hostname}) *)
DhcpDel ==
    /\ dpc = "del"
    /\ \/ AllocFailed /\ UNCHANGED byHost
       \/ /\ byHost' = Del(byHost, dloc.existing[1].hostname)
          /\ Goto("txn", dloc)
    /\ UNCHANGED <<byMac, etcdLeases, httpVars, auxVars, sweepVars, now>>

(* lines 456-462: the record the DHCP engine writes has no amt_ip *)
DhcpRecord(loc, mac) == AllocRec(loc.hostname, loc.type, loc.ip, <<>>, Normalize(mac))

(* lines 476-483: compare=[], both puts *)
DhcpTxnMac(loc, mac) == Put(byMac, Normalize(mac), DhcpRecord(loc, mac))

DhcpTxnHost(loc, mac) == Put(byHost, loc.hostname, DhcpRecord(loc, mac))

DhcpTxn ==
    /\ dpc = "txn"
    /\ \/ AllocFailed /\ UNCHANGED <<byMac, byHost>>
       \/ /\ byMac' = DhcpTxnMac(dloc, pkt.mac)
          /\ byHost' = DhcpTxnHost(dloc, pkt.mac)
          /\ AllocDone(dloc.hostname, dloc.ip)
    /\ UNCHANGED <<etcdLeases, httpVars, auxVars, sweepVars, now>>

(* a reply that goes by the address option of the packet *)
ReplyRequestedAddr(p, loc) ==
    IF p.kind = "DISCOVER" THEN Reply("OFFER", p.requested_addr, loc.hostname)
    ELSE Validate(leases, p.mac, p.requested_addr)

(* handle_dhcp_discover lines 665-674, handle_dhcp_request lines 734-751 *)
(* once get_or_create_lease returned (ip, hostname)                       *)
ReplyAfterLease(p, loc) ==
    IF p.kind = "DISCOVER" THEN Reply("OFFER", loc.ip, loc.hostname)
    ELSE Validate(leases, p.mac, loc.ip)

(* save_lease_to_etcd (line 637), then the reply *)
DhcpSave ==
    /\ dpc = "save"
    /\ \/ UNCHANGED etcdLeases
       \/ etcdLeases' = SaveLease(etcdLeases, Normalize(pkt.mac),
                                  Lease(pkt.mac, dloc.ip, OrEmpty(dloc.hostname),
                                        now + LEASE_TIME))
    /\ reply' = ReplyAfterLease(pkt, dloc)
    /\ dpc' = "replied"
    /\ UNCHANGED <<byMac, byHost, httpVars, auxVars, leaseVars, sweepVars, now, pkt, dloc,
                   lastOffer>>

(* the handler returns; the listener takes the next packet *)
DhcpDone ==
    /\ dpc = "replied"
    /\ dpc' = "idle"
    /\ pkt' = NoPacket
    /\ dloc' = NoLocals
    /\ reply' = NoReply
    /\ lastOffer' = Track(IF reply.type = "OFFER"
                          THEN [mac |-> pkt.mac, hostname |-> pkt.hostname,
                                ip |-> reply.ip]
                          ELSE lastOffer)
    /\ UNCHANGED <<storeVars, httpVars, auxVars, leaseVars, sweepVars, now>>

(* ---- cleanup thread (cleanup_expired_leases) ---------------------- *)
(* lines 868-886: one pass over the map collects the expired MACs *)
ExpiredNow == {m \in DOMAIN leases : leases[m].expires <= now}

(* a loop that starts no further pass once a pass has raised *)
AwakesAfterSuccess(pos) == pos = "sleep"

(* line 866: the loop starts its next pass after time.sleep(300) at the *)
(* end of a pass (line 894) and after time.sleep(60) in the except      *)
(* (line 897) alike                                                     *)
Awakes(pos) == pos \in {"sleep", "failed"}

SweepScan ==
    /\ Awakes(spc)
    /\ dpc # "crashed"
    /\ ExpiredNow # {}
    /\ expired_macs' = ExpiredNow
    /\ spc' = "remove"
    /\ UNCHANGED <<storeVars, httpVars, auxVars, leaseVars, handlerVars, now>>

(* lines 888-892: lease = self.leases[mac] raises KeyError when the    *)
(* handler removed the lease meanwhile; the pass ends in the except    *)
SweepRemove(mac) ==
    /\ spc = "remove"
    /\ dpc # "crashed"
    /\ mac \in expired_macs
    /\ IF Has(leases, mac)
       THEN /\ leases' = Del(leases, mac)
            /\ allocated_ips' = allocated_ips \ {leases[mac].ip}
            /\ expired_macs' = expired_macs \ {mac}
            /\ spc' = IF expired_macs' = {} THEN "sleep" ELSE "remove"
       ELSE /\ expired_macs' = {}
            /\ spc' = "failed"
            /\ UNCHANGED leaseVars
    /\ UNCHANGED <<storeVars, httpVars, auxVars, handlerVars, now>>

(* ---- time --------------------------------------------------------- *)
TickLen == LEASE_TIME

(* store calls time out within seconds: the clock is advanced between *)
(* handler runs                                                       *)
Tick ==
    /\ now < MaxTicks * TickLen
    /\ dpc = "idle"
    /\ spc \in {"sleep", "failed"}
    /\ now' = now + TickLen
    /\ lastOffer' = Track(NoOffer)
    /\ UNCHANGED <<storeVars, httpVars, auxVars, leaseVars, dpc, pkt, dloc, reply, sweepVars>>

(* ------------------------------------------------------------------ *)
(* determine_ip_from_hostname as its two callers have it              *)
(* ------------------------------------------------------------------ *)
NotCalled == IpOutcome("not called", NoneIp)

(* what the DHCP engine's version hands back: an address or None *)
DhcpIpOutcome(hostname) ==
    IF DhcpDetermineIp(hostname) = NoneIp THEN IpOutcome("none", NoneIp)
    ELSE IpOutcome("ip", DhcpDetermineIp(hostname))

(* what follows the type letter: nothing, numbers inside and outside *)
(* 1..20, signed and zero-padded numbers, non-numbers, and the same  *)
(* with the AMT suffix                                               *)
DeriveSuffixes ==
    {<<>>, <<"0">>, <<"1">>, <<"0", "1">>, <<"2", "0">>, <<"2", "1">>,
     <<"x">>, <<"-", "1">>, <<"+", "1">>,
     <<"a">>, <<"0", "a">>, <<"1", "a">>, <<"2", "1", "a">>, <<"x", "a">>}

DeriveInputs ==
    {NoneStr, EmptyStr}
        \cup {<<x[1]>> \o x[2] : x \in {"s", "c", "m", "q", "a"} \X DeriveSuffixes}

CallHttpDetermineIp ==
    /\ httpOut = NotCalled
    /\ httpOut' = HttpDetermineIp(hname)
    /\ UNCHANGED <<storeVars, httpVars, dhcpVars, now, hname, dhcpOut, nameVars, clientVars, healthVars,
                   startVars>>

CallDhcpDetermineIp ==
    /\ dhcpOut = NotCalled
    /\ dhcpOut' = DhcpIpOutcome(hname)
    /\ UNCHANGED <<storeVars, httpVars, dhcpVars, now, hname, httpOut, nameVars, clientVars, healthVars,
                   startVars>>

(* ------------------------------------------------------------------ *)
(* get_next_hostname as its two owners have it                        *)
(* ------------------------------------------------------------------ *)
NameOutcome(kind, name) == [kind |-> kind, name |-> name]

NoName == NameOutcome("not called", NoneStr)

(* DHCPServer.get_next_hostname lines 340-369: without a client the  *)
(* answer is {prefix}1; with one, the scan of app.py                 *)
DhcpNextHostname(store, node_type, client) ==
    IF ~client THEN NameOutcome("fallback", <<TypePrefix(node_type), "1">>)
    ELSE NameOutcome("scan",
            <<TypePrefix(node_type)>>
                \o IntStr(FirstGap(SortedNumbers(NumberedKeys(store, TypePrefix(node_type))))))

CallHttpNextHostname ==
    /\ ntype # "none"
    /\ nhttp = NoName
    /\ nhttp' = NameOutcome("scan", get_next_hostname(byHost, ntype))
    /\ UNCHANGED <<storeVars, httpVars, dhcpVars, now, hname, httpOut, dhcpOut, dprev, ntype,
                   ndhcp, clientVars, healthVars, startVars>>

CallDhcpNextHostname ==
    /\ ntype # "none"
    /\ ndhcp = NoName
    /\ \E client \in BOOLEAN : ndhcp' = DhcpNextHostname(byHost, ntype, client)
    /\ UNCHANGED <<storeVars, httpVars, dhcpVars, now, hname, httpOut, dhcpOut, dprev, ntype,
                   nhttp, clientVars, healthVars, startVars>>

(* a caller that has both outcomes for one hostname goes on to the next *)
DeriveAgain(hostname) ==
    /\ httpOut # NotCalled
    /\ dhcpOut # NotCalled
    /\ dprev = <<>>
    /\ dprev' = <<[name |-> hname, http |-> httpOut, dhcp |-> dhcpOut]>>
    /\ hname' = hostname
    /\ httpOut' = NotCalled
    /\ dhcpOut' = NotCalled
    /\ UNCHANGED <<storeVars, httpVars, dhcpVars, now, ntype, nhttp, ndhcp, clientVars,
                   healthVars, startVars>>

NameIdle ==
    /\ dprev = <<>>
    /\ ntype = "none"
    /\ nhttp = NoName
    /\ ndhcp = NoName

DeriveIdle ==
    /\ hname = NoneStr
    /\ httpOut = NotCalled
    /\ dhcpOut = NotCalled
    /\ NameIdle

(* ------------------------------------------------------------------ *)
(* The store client (common/etcd_utils.py)                            *)
(* ------------------------------------------------------------------ *)
(* get_etcd_hosts(): the configured endpoints, in order *)
EtcdHosts == <<"e1", "e2", "e3">>

EtcdHostSet == {EtcdHosts[i] : i \in 1..Len(EtcdHosts)}

NoClient == "None"

ConnectionError == "ConnectionError"

(* max_retries as callers pass it; the default is 3 *)
MaxRetriesArgs == 1..3

coreVars == <<storeVars, httpVars, dhcpVars, now, deriveVars, startVars>>

(* what a step of the store client leaves alone *)
otherVars == <<coreVars, healthVars>>

(* get_etcd_client lines 42-50: with a cached client, check it first *)
EnterClient(max_retries) ==
    /\ cpc = "idle"
    /\ cmax' = max_retries
    /\ cpc' = IF cached # NoClient THEN "status" ELSE "connect"
    /\ UNCHANGED <<up, cached, cpass, cidx, tried, cret>>

ClientCall(max_retries) == EnterClient(max_retries) /\ UNCHANGED otherVars

(* lines 46-50: _CACHED_CLIENT.status() *)
ClientStatus ==
    /\ cpc = "status"
    /\ IF cached \in up
       THEN /\ cret' = cached
            /\ cpc' = "done"
            /\ UNCHANGED cached
       ELSE /\ cached' = NoClient
            /\ cpc' = "connect"
            /\ UNCHANGED cret
    /\ UNCHANGED <<up, cmax, cpass, cidx, tried, otherVars>>

(* a loop that runs one pass more than asked *)
PassesLeftAndOne(pass, max_retries) == pass <= max_retries + 1

(* for _ in range(max_retries) *)
PassesLeft(pass, max_retries) == pass <= max_retries

(* connect_with_retry lines 26-36: one endpoint tried, or the raise *)
(* once the passes are used up                                     *)
ConnectStep ==
    /\ cpc = "connect"
    /\ IF PassesLeft(cpass, cmax)
       THEN /\ tried' = Append(tried, EtcdHosts[cidx])
            /\ IF EtcdHosts[cidx] \in up
               THEN /\ cached' = EtcdHosts[cidx]
                    /\ cret' = EtcdHosts[cidx]
                    /\ cpc' = "done"
                    /\ UNCHANGED <<cpass, cidx>>
               ELSE /\ cidx' = IF cidx = Len(EtcdHosts) THEN 1 ELSE cidx + 1
                    /\ cpass' = IF cidx = Len(EtcdHosts) THEN cpass + 1 ELSE cpass
                    /\ UNCHANGED <<cached, cret, cpc>>
       ELSE /\ cret' = ConnectionError
            /\ cpc' = "done"
            /\ UNCHANGED <<cached, cpass, cidx, tried>>
    /\ UNCHANGED <<up, cmax, otherVars>>

(* the caller has the result *)
LeaveClient ==
    /\ cpc = "done"
    /\ cpc' = "idle"
    /\ cmax' = 0
    /\ cpass' = 1
    /\ cidx' = 1
    /\ tried' = <<>>
    /\ cret' = NoClient
    /\ UNCHANGED <<up, cached>>

ClientReturn == LeaveClient /\ UNCHANGED otherVars

(* an endpoint goes down or comes back *)
EndpointFlip(e) ==
    /\ up' = IF e \in up THEN up \ {e} ELSE up \cup {e}
    /\ UNCHANGED <<cached, cpc, cmax, cpass, cidx, tried, cret, otherVars>>

ClientIdle ==
    /\ cached = NoClient
    /\ cpc = "idle"
    /\ cmax = 0
    /\ cpass = 1
    /\ cidx = 1
    /\ tried = <<>>
    /\ cret = NoClient

(* ------------------------------------------------------------------ *)
(* Health endpoint of the DHCP server (HealthHandler)                 *)
(* ------------------------------------------------------------------ *)
HealthPaths == {"/health", "/status", "/leases"}

(* the default max_retries of etcd_utils.get_etcd_client *)
DefaultRetries == 3

(* do_GET lines 62-70: the handler of the path is called *)
HealthGet(path) ==
    /\ gpc = "idle"
    /\ gpath' = path
    /\ gpc' = IF path = "/leases" THEN "respond" ELSE "get_client"
    /\ UNCHANGED <<etcd_client, running, clientVars, coreVars>>

(* DHCPServer.get_etcd_client lines 187-192: the client in hand is *)
(* checked and dropped when the check fails                        *)
HealthCheckClient ==
    /\ gpc = "get_client"
    /\ IF etcd_client # NoClient /\ etcd_client \in up
       THEN gpc' = "respond" /\ UNCHANGED etcd_client
       ELSE gpc' = "reconnect" /\ etcd_client' = NoClient
    /\ UNCHANGED <<running, gpath, clientVars, coreVars>>

(* line 195: get_etcd_client() of etcd_utils is entered *)
HealthReconnect ==
    /\ gpc = "reconnect"
    /\ EnterClient(DefaultRetries)
    /\ gpc' = "connecting"
    /\ UNCHANGED <<etcd_client, running, gpath, coreVars>>

(* lines 195-200: its result becomes self.etcd_client; an exception *)
(* leaves None                                                      *)
HealthConnected ==
    /\ gpc = "connecting"
    /\ LeaveClient
    /\ etcd_client' = IF cret = ConnectionError THEN etcd_client ELSE cret
    /\ gpc' = "respond"
    /\ UNCHANGED <<running, gpath, coreVars>>

(* _send_json_response: the answer is written out *)
HealthRespond ==
    /\ gpc = "respond"
    /\ gpc' = "idle"
    /\ gpath' = "none"
    /\ UNCHANGED <<etcd_client, running, clientVars, coreVars>>

(* start() line 914 *)
ServerRuns ==
    /\ ~running
    /\ running' = TRUE
    /\ UNCHANGED <<etcd_client, gpc, gpath, clientVars, coreVars>>

HealthIdle ==
    /\ gpc = "idle"
    /\ gpath = "none"

(* ------------------------------------------------------------------ *)
(* Startup: migrate_leases_to_normalized_mac, load_leases_from_etcd   *)
(* ------------------------------------------------------------------ *)
(* a value under /cluster/dhcp/leases/: JSON whose fields may be      *)
(* missing (a sequence of length 0), or bytes that are not JSON       *)
JsonLease(mac, ip, hostname, expires) ==
    [json |-> TRUE, mac |-> mac, ip |-> ip, hostname |-> hostname, expires |-> expires]

Malformed == [json |-> FALSE, mac |-> <<>>, ip |-> <<>>, hostname |-> <<>>, expires |-> <<>>]

(* the lease keys of the model in the order get_prefix returns them *)
(* (byte order: '-' < digits < ':' < letters)                       *)
LeaseKeyOrder == <<MacS1Dashed, "5847ca010203", MacS1, MacC1, "aabbcc000001">>

LeaseKeySet == {LeaseKeyOrder[i] : i \in 1..Len(LeaseKeyOrder)}

NormalizedKeys == {"5847ca010203", "aabbcc000001"}

(* client.get_prefix(".../leases/") *)
Snapshot(store) ==
    LET present == SelectSeq(LeaseKeyOrder, LAMBDA k : Has(store, k))
    IN [i \in 1..Len(present) |-> <<present[i], store[present[i]]>>]

OldIp(mac) == IF mac = MacC1 THEN <<10, 0, 0, 201>> ELSE <<10, 0, 0, 200>>

NewIp(mac) == IF mac = MacC1 THEN <<10, 0, 0, 51>> ELSE <<10, 0, 0, 11>>

(* what an older release stored: no hostname, no expires *)
LegacyLease(mac) == JsonLease(<<mac>>, <<OldIp(mac)>>, <<>>, <<>>)

NoMacLease(mac) == JsonLease(<<>>, <<OldIp(mac)>>, <<>>, <<>>)

(* what save_lease_to_etcd stores *)
CurrentLease(mac) ==
    JsonLease(<<mac>>, <<NewIp(mac)>>, <<IF mac = MacC1 THEN HostC1 ELSE HostS1>>, <<3600>>)

NoIpLease(mac) == JsonLease(<<mac>>, <<>>, <<>>, <<>>)

(* what each key may hold when the server starts *)
StartValues(key) ==
    IF key = MacS1Dashed THEN {LegacyLease(key)}
    ELSE IF key \in {MacS1, MacC1} THEN {LegacyLease(key), NoMacLease(key), Malformed}
    ELSE IF key = "5847ca010203" THEN {CurrentLease(MacS1), NoIpLease(MacS1)}
    ELSE {CurrentLease(MacC1), NoIpLease(MacC1)}

StartStores ==
    {f \in UNION {[S -> UNION {StartValues(k) : k \in LeaseKeySet}] : S \in SUBSET LeaseKeySet} :
        \A k \in DOMAIN f : f[k] \in StartValues(k)}

startFrame ==
    <<byMac, byHost, httpVars, handlerVars, sweepVars, now, deriveVars, clientVars,
      healthVars>>

(* lines 492-501: the client, then get_prefix; without either the *)
(* migration is over                                              *)
MigrateBegin ==
    /\ spos = "init"
    /\ \/ /\ spos' = "between"
          /\ serr' = TRUE
          /\ UNCHANGED <<snap, sidx>>
       \/ /\ spos' = "migrate"
          /\ snap' = Snapshot(etcdLeases)
          /\ sidx' = 1
          /\ UNCHANGED serr
    /\ UNCHANGED <<etcdLeases, leaseVars, sruns, startFrame>>

(* lines 505-523: is the entry parsed, with a MAC, under another key *)
(* than the normalized MAC of its data?                              *)
NeedsMigration(key, value) ==
    /\ value.json
    /\ value.mac # <<>>
    /\ key # Normalize(value.mac[1])

(* lines 525-532: put under the normalized key, delete the old key; *)
(* either call may raise, which ends the entry (lines 534-537)      *)
MigrateEntry ==
    /\ spos = "migrate"
    /\ sidx <= Len(snap)
    /\ sidx' = sidx + 1
    /\ LET key == snap[sidx][1]
           value == snap[sidx][2]
       IN IF NeedsMigration(key, value)
          THEN \/ /\ etcdLeases' = Del(Put(etcdLeases, Normalize(value.mac[1]), value), key)
                  /\ UNCHANGED serr
               \/ /\ etcdLeases' = Put(etcdLeases, Normalize(value.mac[1]), value)
                  /\ serr' = TRUE
               \/ /\ serr' = TRUE
                  /\ UNCHANGED etcdLeases
          ELSE UNCHANGED <<etcdLeases, serr>>
    /\ UNCHANGED <<spos, snap, leaseVars, sruns, startFrame>>

(* lines 539-542 *)
MigrateEnd ==
    /\ spos = "migrate"
    /\ sidx > Len(snap)
    /\ spos' = "between"
    /\ UNCHANGED <<snap, sidx, serr, etcdLeases, leaseVars, sruns, startFrame>>

(* load_leases_from_etcd lines 548-553 *)
LoadBegin ==
    /\ spos = "between"
    /\ \/ /\ spos' = "up"
          /\ serr' = TRUE
          /\ UNCHANGED <<snap, sidx>>
       \/ /\ spos' = "load"
          /\ snap' = Snapshot(etcdLeases)
          /\ sidx' = 1
          /\ UNCHANGED serr
    /\ UNCHANGED <<etcdLeases, leaseVars, sruns, startFrame>>

(* lines 557-566: expires, hostname backfilled *)
LoadedLease(value) ==
    Lease(value.mac[1],
          IF value.ip = <<>> THEN NoneIp ELSE value.ip[1],
          IF value.hostname = <<>> THEN EmptyStr ELSE value.hostname[1],
          IF value.expires = <<>> THEN now + LEASE_TIME ELSE value.expires[1])

(* lines 553-572: one try around the whole loop: json.loads or       *)
(* lease_data['mac'] raising ends the load; lease_data['ip'] raises  *)
(* after the lease has entered the map                               *)
LoadEntry ==
    /\ spos = "load"
    /\ sidx <= Len(snap)
    /\ LET value == snap[sidx][2]
       IN IF ~value.json \/ value.mac = <<>>
          THEN /\ spos' = "up"
               /\ UNCHANGED <<sidx, leaseVars>>
          ELSE IF value.ip = <<>>
          THEN /\ spos' = "up"
               /\ leases' = Put(leases, value.mac[1], LoadedLease(value))
               /\ UNCHANGED <<sidx, allocated_ips>>
          ELSE /\ leases' = Put(leases, value.mac[1], LoadedLease(value))
               /\ allocated_ips' = allocated_ips \cup {value.ip[1]}
               /\ sidx' = sidx + 1
               /\ UNCHANGED spos
    /\ UNCHANGED <<snap, serr, etcdLeases, sruns, startFrame>>

LoadEnd ==
    /\ spos = "load"
    /\ sidx > Len(snap)
    /\ spos' = "up"
    /\ UNCHANGED <<snap, sidx, serr, etcdLeases, leaseVars, sruns, startFrame>>

(* the process ends and is started again: DHCPServer.__init__ *)
Restart ==
    /\ spos = "up"
    /\ sruns < MaxStarts
    /\ sruns' = sruns + 1
    /\ spos' = "init"
    /\ snap' = <<>>
    /\ sidx' = 1
    /\ leases' = EmptyMap
    /\ allocated_ips' = {}
    /\ UNCHANGED <<serr, etcdLeases, startFrame>>

(* start() has run through *)
StartIdle ==
    /\ spos = "up"
    /\ snap = <<>>
    /\ sidx = 1
    /\ serr = FALSE
    /\ sruns = 1

(* the packet handler and the admin API on their own: the listener is *)
(* up, and the store client is not followed                           *)
AuxIdle ==
    /\ DeriveIdle
    /\ up = EtcdHostSet /\ ClientIdle
    /\ etcd_client = NoClient /\ running = TRUE /\ HealthIdle
    /\ StartIdle

(* ------------------------------------------------------------------ *)
(* Specifications                                                     *)
(* ------------------------------------------------------------------ *)
InitBase ==
    /\ byMac = EmptyMap
    /\ byHost = EmptyMap
    /\ hpc = [w \in Workers |-> "idle"]
    /\ hmac = [w \in Workers |-> MacS1]
    /\ hdata = [w \in Workers |-> <<>>]
    /\ hret = [w \in Workers |-> NoReturn]
    /\ lock = [p \in Procs |-> NoHolder]
    /\ leases = EmptyMap
    /\ allocated_ips = {}
    /\ now = 0
    /\ dpc = "idle"
    /\ pkt = NoPacket
    /\ dloc = NoLocals
    /\ reply = NoReply
    /\ spc = "sleep"
    /\ expired_macs = {}

Init == InitBase /\ lastOffer = OfferOff /\ etcdLeases = MirrorOff /\ AuxIdle

InitOffers == InitBase /\ lastOffer = NoOffer /\ etcdLeases = MirrorOff /\ AuxIdle

(* the lease mirror under /cluster/dhcp/leases/ starts empty and is written *)
InitMirror == InitBase /\ lastOffer = OfferOff /\ etcdLeases = EmptyMap /\ AuxIdle

DhcpNext ==
    \/ \E p \in Packets : DhcpStart(p)
    \/ DhcpGetMac
    \/ DhcpGetHost
    \/ DhcpDyn
    \/ DhcpDel
    \/ DhcpTxn
    \/ DhcpSave
    \/ DhcpDone
    \/ SweepScan
    \/ \E m \in DhcpMacs : SweepRemove(m)
    \/ Tick

(* the DHCP engine alone: packet handler, cleanup thread, clock *)
Next == DhcpNext

Spec == Init /\ [][Next]_vars

DhcpSteps ==
    \/ DhcpGetMac
    \/ DhcpGetHost
    \/ DhcpDyn
    \/ DhcpDel
    \/ DhcpTxn
    \/ DhcpSave
    \/ DhcpDone

(* the DHCP engine and one HTTP API process against the same store: the *)
(* second client discovers with or without a static name while the API  *)
(* allocates                                                            *)
RacePackets ==
    {Packet("DISCOVER", MacC1, h, NoneIp, NoneIp) : h \in {NoneStr, HostS1, HostC1}}

NextRace ==
    \/ \E p \in RacePackets : DhcpStart(p)
    \/ DhcpSteps
    \/ HttpNext("p2t1")

SpecRace == Init /\ [][NextRace]_vars

(* the HTTP API alone: two processes, one of them with two threads *)
NextHttp == \E w \in Workers : HttpNext(w)

SpecHttp == Init /\ [][NextHttp]_vars

(* one HTTP API process on its own: its threads share allocation_lock *)
Threads == {w \in Workers : ProcOf(w) = "p1"}

NextThreads == \E w \in Threads : HttpNext(w)

SpecThreads == Init /\ [][NextThreads]_vars

(* the packet handler within one lease period, with the OFFER history *)
(* recorded: every DISCOVER, and the REQUESTs that name this server    *)
(* and carry no hostname option                                        *)
OfferPackets ==
    Discovers \cup {p \in Requests : p.server_id = ServerIp /\ p.hostname = NoneStr}

NextOffers ==
    \/ \E p \in OfferPackets : DhcpStart(p)
    \/ DhcpSteps

SpecOffers == InitOffers /\ [][NextOffers]_vars

(* one client that comes back half-way through its lease: the clock   *)
(* stops before any lease expires                                     *)
RenewPackets ==
    {p \in Packets : p.mac = MacS1 /\ p.hostname \in {NoneStr, HostC1}
                       /\ p.server_id \in {NoneIp, ServerIp}}

HalfTick ==
    /\ now = 0
    /\ dpc = "idle"
    /\ now' = now + (LEASE_TIME \div 2)
    /\ lastOffer' = Track(NoOffer)
    /\ UNCHANGED <<storeVars, httpVars, auxVars, leaseVars, dpc, pkt, dloc, reply, sweepVars>>

NextRenew ==
    \/ \E p \in RenewPackets : DhcpStart(p)
    \/ DhcpSteps
    \/ HalfTick

SpecRenew == Init /\ [][NextRenew]_vars

(* the DHCP engine with one client and the lease mirror written:       *)
(* DISCOVERs with no, a static or an unusable hostname, REQUESTs to    *)
(* this server, to another and to none                                 *)
MirrorPackets ==
    {p \in Discovers : p.mac = MacS1 /\ p.hostname \in {NoneStr, HostC1, HostFoo}}
        \cup {p \in Requests : p.mac = MacS1 /\ p.hostname \in {NoneStr, HostC01}
                                  /\ p.requested_addr # NoneIp}

NextMirror ==
    \/ \E p \in MirrorPackets : DhcpStart(p)
    \/ DhcpSteps
    \/ SweepScan
    \/ \E m \in DhcpMacs : SweepRemove(m)
    \/ Tick

SpecMirror == InitMirror /\ [][NextMirror]_vars

(* determine_ip_from_hostname applied by both callers to one hostname *)
InitDerive ==
    /\ InitBase /\ lastOffer = OfferOff /\ etcdLeases = MirrorOff
    /\ hname \in DeriveInputs
    /\ httpOut = NotCalled
    /\ dhcpOut = NotCalled
    /\ NameIdle
    /\ up = EtcdHostSet /\ ClientIdle
    /\ etcd_client = NoClient /\ running = TRUE /\ HealthIdle
    /\ StartIdle

NextDerive ==
    \/ CallHttpDetermineIp
    \/ CallDhcpDetermineIp

SpecDerive == InitDerive /\ [][NextDerive]_vars

(* get_next_hostname applied by both owners to one registry: hostnames *)
(* as the API writes them, and numbered hostnames that clients asked   *)
(* for over DHCP, zero-padded ones among them                          *)
NameKeyOrder ==
    <<<<"c", "1">>, <<"c", "0", "1">>, <<"c", "2">>, <<"c", "3">>, <<"c", "4">>,
      <<"c", "1", "0">>, <<"s", "1">>, <<"s", "2">>, <<"s", "4">>,
      <<"d", "h", "c", "p", "-", "2", "0", "0">>>>

(* every hostname is held by a MAC of its own *)
NameRecord(i) ==
    AllocRec(NameKeyOrder[i], determine_type_from_hostname(NameKeyOrder[i]),
             IF NameKeyOrder[i][1] = "d" THEN <<10, 0, 0, 200>>
             ELSE DhcpDetermineIp(NameKeyOrder[i]),
             <<>>, "aabbcc0001" \o ToString(10 + i))

NameStores ==
    {[h \in {NameKeyOrder[i] : i \in S} |->
         NameRecord(CHOOSE i \in S : NameKeyOrder[i] = h)] :
       S \in SUBSET (1..Len(NameKeyOrder))}

NodeTypes == {"storage", "compute", "macos"}

InitNames ==
    /\ byMac = EmptyMap
    /\ byHost \in NameStores
    /\ hpc = [w \in Workers |-> "idle"]
    /\ hmac = [w \in Workers |-> MacS1]
    /\ hdata = [w \in Workers |-> <<>>]
    /\ hret = [w \in Workers |-> NoReturn]
    /\ lock = [p \in Procs |-> NoHolder]
    /\ leases = EmptyMap
    /\ allocated_ips = {}
    /\ now = 0
    /\ dpc = "idle"
    /\ pkt = NoPacket
    /\ dloc = NoLocals
    /\ reply = NoReply
    /\ spc = "sleep"
    /\ expired_macs = {}
    /\ lastOffer = OfferOff /\ etcdLeases = MirrorOff
    /\ hname = NoneStr /\ httpOut = NotCalled /\ dhcpOut = NotCalled
    /\ dprev = <<>>
    /\ ntype \in NodeTypes
    /\ nhttp = NoName
    /\ ndhcp = NoName
    /\ up = EtcdHostSet /\ ClientIdle
    /\ etcd_client = NoClient /\ running = TRUE /\ HealthIdle
    /\ StartIdle

NextNames ==
    \/ CallHttpNextHostname
    \/ CallDhcpNextHostname

SpecNames == InitNames /\ [][NextNames]_vars

(* the DHCP engine on a dynamic range that is nearly or fully used:   *)
(* other MACs hold dhcp-k for every k of the range but a few, and two *)
(* clients ask for an address                                         *)
PoolHoles == {200, 201, 230, 249}

PoolRecord(k) ==
    AllocRec(<<"d", "h", "c", "p", "-">> \o IntStr(k), "compute", <<10, 0, 0, k>>, <<>>,
             "aabbcc000" \o ToString(k))

PoolByHost(holes) ==
    [h \in {PoolRecord(k).hostname : k \in (DYNAMIC_IP_START..DYNAMIC_IP_END) \ holes} |->
        PoolRecord(IntVal(SubSeq(h, 6, Len(h))))]

PoolByMac(holes) ==
    [m \in {PoolRecord(k).mac : k \in (DYNAMIC_IP_START..DYNAMIC_IP_END) \ holes} |->
        PoolRecord(CHOOSE k \in DYNAMIC_IP_START..DYNAMIC_IP_END : PoolRecord(k).mac = m)]

PoolPackets ==
    {Packet("DISCOVER", x[1], x[2], NoneIp, NoneIp) :
        x \in {<<MacS1, NoneStr>>, <<MacS1, HostFoo>>, <<MacC1, NoneStr>>}}

InitPool ==
    /\ \E holes \in SUBSET PoolHoles :
          /\ byMac = PoolByMac(holes)
          /\ byHost = PoolByHost(holes)
    /\ hpc = [w \in Workers |-> "idle"]
    /\ hmac = [w \in Workers |-> MacS1]
    /\ hdata = [w \in Workers |-> <<>>]
    /\ hret = [w \in Workers |-> NoReturn]
    /\ lock = [p \in Procs |-> NoHolder]
    /\ leases = EmptyMap
    /\ allocated_ips = {}
    /\ now = 0
    /\ dpc = "idle"
    /\ pkt = NoPacket
    /\ dloc = NoLocals
    /\ reply = NoReply
    /\ spc = "sleep"
    /\ expired_macs = {}
    /\ lastOffer = OfferOff /\ etcdLeases = MirrorOff
    /\ AuxIdle

NextPool ==
    \/ \E p \in PoolPackets : DhcpStart(p)
    \/ DhcpGetMac
    \/ DhcpDyn
    \/ DhcpDel
    \/ DhcpTxn
    \/ DhcpSave
    \/ DhcpDone

SpecPool == InitPool /\ [][NextPool]_vars

(* the cleanup thread scheduled fairly next to the packet handler: two *)
(* clients that take a lease and may come back, and the clock          *)
FairPackets ==
    {Packet("DISCOVER", mac, NoneStr, NoneIp, NoneIp) : mac \in DhcpMacs}

NextFair ==
    \/ \E p \in FairPackets : DhcpStart(p)
    \/ DhcpGetMac
    \/ DhcpDyn
    \/ DhcpTxn
    \/ DhcpSave
    \/ DhcpDone
    \/ SweepScan
    \/ \E m \in DhcpMacs : SweepRemove(m)
    \/ Tick

(* the thread is daemon and sleeps between passes: whenever it has a *)
(* step to take it takes one                                         *)
SpecFair ==
    /\ Init
    /\ [][NextFair]_vars
    /\ WF_vars(SweepScan)
    /\ WF_vars(\E m \in DhcpMacs : SweepRemove(m))

(* check_vip_status: the addresses keepalived moves between nodes *)
gateway_vip_ip == <<10, 0, 0, 254>>

storage_vip_ip == <<10, 0, 0, 100>>

(* determine_ip_from_hostname applied to two hostnames, one after the *)
(* other: every type, every suffix of the range, primary and AMT form *)
StaticNames ==
    {<<x[1]>> \o IntStr(x[2]) : x \in {"s", "c", "m"} \X (1..RangeMax)}
        \cup {<<x[1]>> \o IntStr(x[2]) \o <<"a">> : x \in {"s", "c", "m"} \X (1..RangeMax)}

InitPairs ==
    /\ InitBase /\ lastOffer = OfferOff /\ etcdLeases = MirrorOff
    /\ hname \in StaticNames
    /\ httpOut = NotCalled
    /\ dhcpOut = NotCalled
    /\ NameIdle
    /\ up = EtcdHostSet /\ ClientIdle
    /\ etcd_client = NoClient /\ running = TRUE /\ HealthIdle
    /\ StartIdle

NextPairs ==
    \/ CallHttpDetermineIp
    \/ CallDhcpDetermineIp
    \/ \E hostname \in StaticNames : DeriveAgain(hostname)

SpecPairs == InitPairs /\ [][NextPairs]_vars

(* the store client alone, with endpoints that come and go *)
InitClient ==
    /\ InitBase /\ lastOffer = OfferOff /\ etcdLeases = MirrorOff
    /\ DeriveIdle
    /\ up \in SUBSET EtcdHostSet
    /\ ClientIdle
    /\ etcd_client = NoClient /\ running = TRUE /\ HealthIdle
    /\ StartIdle

NextClient ==
    \/ \E r \in MaxRetriesArgs : ClientCall(r)
    \/ ClientStatus
    \/ ConnectStep
    \/ ClientReturn
    \/ \E e \in EtcdHostSet : EndpointFlip(e)

SpecClient == InitClient /\ [][NextClient]_vars

(* the DHCP server once its health endpoint is up (start() line 911):  *)
(* the store client is whatever the startup calls left, one client     *)
(* discovers and requests, the endpoints come and go                   *)
HealthPackets ==
    {p \in Packets : p.mac = MacS1 /\ p.hostname = NoneStr
                       /\ p.server_id \in {NoneIp, ServerIp}
                       /\ p.requested_addr \in {NoneIp, <<10, 0, 0, 200>>}}

InitHealth ==
    /\ InitBase /\ lastOffer = OfferOff /\ etcdLeases = MirrorOff
    /\ DeriveIdle
    /\ up \in SUBSET EtcdHostSet
    /\ cached \in EtcdHostSet \cup {NoClient}
    /\ cpc = "idle" /\ cmax = 0 /\ cpass = 1 /\ cidx = 1
    /\ tried = <<>> /\ cret = NoClient
    /\ etcd_client = cached
    /\ running = FALSE
    /\ HealthIdle
    /\ StartIdle

NextHealth ==
    \/ \E path \in HealthPaths : HealthGet(path)
    \/ HealthCheckClient
    \/ HealthReconnect
    \/ ClientStatus
    \/ ConnectStep
    \/ HealthConnected
    \/ HealthRespond
    \/ ServerRuns
    \/ \E e \in EtcdHostSet : EndpointFlip(e)
    \/ \E p \in HealthPackets : running /\ DhcpStart(p)
    \/ DhcpGetMac
    \/ DhcpDyn
    \/ DhcpTxn
    \/ DhcpSave
    \/ DhcpDone

SpecHealth == InitHealth /\ [][NextHealth]_vars

(* start() up to line 907 over whatever leases earlier runs left in *)
(* the store, and the same again after a restart                   *)
InitStartup ==
    /\ InitBase /\ lastOffer = OfferOff
    /\ etcdLeases \in StartStores
    /\ DeriveIdle
    /\ up = EtcdHostSet /\ ClientIdle
    /\ etcd_client = NoClient /\ running = FALSE /\ HealthIdle
    /\ spos = "init" /\ snap = <<>> /\ sidx = 1 /\ serr = FALSE /\ sruns = 1

NextStartup ==
    \/ MigrateBegin
    \/ MigrateEntry
    \/ MigrateEnd
    \/ LoadBegin
    \/ LoadEntry
    \/ LoadEnd
    \/ Restart

SpecStartup == InitStartup /\ [][NextStartup]_vars

(* ------------------------------------------------------------------ *)
(* Properties                                                         *)
(* ------------------------------------------------------------------ *)
HttpOk(w) == hpc[w] = "done" /\ hret[w].kind = "ok"

(* C1: the results of get_or_create_allocation calls, whichever thread or *)
(* process made them, give one hostname to one MAC and different          *)
(* hostnames to different MACs.                                           *)
C1_UniqueStableHostnames ==
    \A w1, w2 \in Workers :
        (HttpOk(w1) /\ HttpOk(w2))
            => ((Normalize(hmac[w1]) = Normalize(hmac[w2]))
                    <=> (hret[w1].rec[1].hostname = hret[w2].rec[1].hostname))

(* C5: when the comparison of the HTTP allocation transaction fails, the *)
(* step writes neither key, does not go back to retry, and the call      *)
(* returns the record it computed.                                       *)
C5_FailedCompareReturnsComputed ==
    [][\A w \in Workers :
          (hpc[w] = "txn" /\ hpc'[w] # "txn" /\ hret'[w].kind = "ok"
              /\ ~HttpCompare(hdata[w][1]))
            => /\ byMac' = byMac
               /\ byHost' = byHost
               /\ hpc'[w] = "done"
               /\ hret'[w] = Returned("ok", hdata[w])]_vars

(* a call went through a failed comparison and returned a record that is *)
(* not the one the store holds for its MAC                               *)
C5_ReturnedDiffersFromStore ==
    \E w \in Workers :
        /\ HttpOk(w)
        /\ Len(hdata[w]) = 1
        /\ hret[w].rec = hdata[w]
        /\ Has(byMac, Normalize(hmac[w]))
        /\ byMac[Normalize(hmac[w])] # hret[w].rec[1]

(* C2: no two MACs hold unexpired in-memory leases for the same IP. *)
C2_NoSharedLeaseIp ==
    \A m1, m2 \in DOMAIN leases :
        (m1 # m2 /\ Unexpired(leases[m1]) /\ Unexpired(leases[m2]))
            => leases[m1].ip # leases[m2].ip

(* C3: in every state of the store a by-mac record has its by-hostname *)
(* twin and the other way round, with the same value under both keys.  *)
C3_KeysPaired ==
    /\ \A m \in DOMAIN byMac :
          /\ byMac[m].mac = m
          /\ Has(byHost, byMac[m].hostname)
          /\ byHost[byMac[m].hostname] = byMac[m]
    /\ \A h \in DOMAIN byHost :
          /\ byHost[h].hostname = h
          /\ Has(byMac, byHost[h].mac)
          /\ byMac[byHost[h].mac] = byHost[h]

(* C4: a by-hostname key that is present is never rewritten with a *)
(* record of another MAC.                                          *)
C4_HostnameKeptByOwner ==
    [][\A h \in DOMAIN byHost :
          Has(byHost', h) => byHost'[h].mac = byHost[h].mac]_vars

(* C8: the handler step that answers NAK leaves no lease for the MAC in *)
(* the lease map.                                                       *)
C8_NakLeavesNoLease ==
    [][(dpc # "replied" /\ dpc' = "replied" /\ reply'.type = "NAK")
          => ~Has(leases', pkt'.mac)]_vars

(* C6: a DISCOVER that repeats the MAC and the hostname option of the *)
(* last OFFER, with no REQUEST of that MAC in between and within the  *)
(* lease period, is offered the same IP.                              *)
C6_RepeatedDiscoverSameIp ==
    (/\ dpc = "replied"
     /\ pkt.kind = "DISCOVER"
     /\ reply.type = "OFFER"
     /\ lastOffer.ip # NoneIp
     /\ lastOffer.mac = pkt.mac
     /\ lastOffer.hostname = pkt.hostname)
        => reply.ip = lastOffer.ip

(* the handler step that answers a REQUEST with ACK or NAK *)
RequestAnswered ==
    /\ dpc # "replied"
    /\ dpc' = "replied"
    /\ pkt'.kind = "REQUEST"
    /\ reply'.type \in {"ACK", "NAK"}

(* C7 as stated: ACK exactly when the lease stored for the MAC has the *)
(* IP the packet requested, NAK otherwise, so that every ACK carries   *)
(* the IP the packet requested.                                        *)
C7_AckIffPacketIp ==
    [][RequestAnswered
          => /\ reply'.type = "ACK"
                  <=> (Has(leases', pkt'.mac)
                          /\ leases'[pkt'.mac].ip = pkt'.requested_addr)
             /\ reply'.type = "ACK" => reply'.ip = pkt'.requested_addr]_vars

(* C7: ACK exactly when the MAC has a stored lease and either the lease's *)
(* IP is the one the packet requested or the hostname change has just     *)
(* re-created the lease; NAK otherwise. Every ACK carries the IP and the  *)
(* hostname of the stored lease.                                          *)
C7_AckIffLeaseIpOrReallocated ==
    [][RequestAnswered
          => /\ reply'.type = "ACK"
                  <=> /\ Has(leases', pkt'.mac)
                      /\ \/ leases'[pkt'.mac].ip = pkt'.requested_addr
                         \/ dpc = "save"
             /\ reply'.type = "ACK"
                  => /\ reply'.ip = leases'[pkt'.mac].ip
                     /\ reply'.hostname = leases'[pkt'.mac].hostname]_vars

(* an ACK went out with an IP the packet did not ask for *)
C7_AckWithOtherIp ==
    /\ dpc = "replied"
    /\ pkt.kind = "REQUEST"
    /\ reply.type = "ACK"
    /\ pkt.requested_addr # NoneIp
    /\ reply.ip # pkt.requested_addr

(* the handler takes a DISCOVER or a REQUEST that carries a placeholder *)
(* hostname, from a MAC that holds an unexpired lease                   *)
PlaceholderArrives ==
    /\ dpc = "idle"
    /\ dpc' # "idle"
    /\ pkt'.hostname \in TemporaryHostnames
    /\ Has(leases, pkt'.mac)
    /\ Unexpired(leases[pkt'.mac])

LeaseReply(type, lease) == Reply(type, lease.ip, lease.hostname)

(* C9 as stated: such a DISCOVER or REQUEST is answered with the IP and *)
(* the hostname of the existing lease, and the lease map, the set of   *)
(* allocated IPs and the allocation records are left as they were.     *)
C9_PlaceholderAnsweredWithLease ==
    [][PlaceholderArrives
          => /\ dpc' = "replied"
             /\ reply' = LeaseReply(IF pkt'.kind = "DISCOVER" THEN "OFFER" ELSE "ACK",
                                    leases[pkt'.mac])
             /\ UNCHANGED <<leases, allocated_ips, byMac, byHost>>]_vars

(* C9: such a packet never changes the lease map, the set of allocated  *)
(* IPs or the allocation records. A DISCOVER is offered the IP and the  *)
(* hostname of the existing lease; a REQUEST that names another server  *)
(* gets no answer; any other REQUEST is acknowledged with the lease's   *)
(* IP and hostname when it requests the lease's IP and refused with NAK *)
(* when it does not.                                                    *)
C9_PlaceholderKeepsLease ==
    [][PlaceholderArrives
          => /\ dpc' = "replied"
             /\ UNCHANGED <<leases, allocated_ips, byMac, byHost>>
             /\ reply' =
                  IF pkt'.kind = "DISCOVER" THEN LeaseReply("OFFER", leases[pkt'.mac])
                  ELSE IF pkt'.server_id \notin {NoneIp, ServerIp} THEN Ignored
                  ELSE IF pkt'.requested_addr = leases[pkt'.mac].ip
                       THEN LeaseReply("ACK", leases[pkt'.mac])
                  ELSE Nak]_vars

(* a REQUEST with a placeholder hostname was refused while the MAC holds *)
(* an unexpired lease under another hostname                             *)
C9_PlaceholderRequestRefused ==
    /\ dpc = "replied"
    /\ pkt.kind = "REQUEST"
    /\ pkt.hostname \in TemporaryHostnames
    /\ reply.type = "NAK"
    /\ Has(leases, pkt.mac)
    /\ Unexpired(leases[pkt.mac])
    /\ leases[pkt.mac].hostname # pkt.hostname

(* the handler answers the DISCOVER without hostname option of a MAC   *)
(* for which the read of by-mac found no record, so that the handler   *)
(* built one (dloc.type is set where the record is built)              *)
FirstDiscoverAnswered ==
    /\ dpc = "save"
    /\ dpc' = "replied"
    /\ pkt.kind = "DISCOVER"
    /\ pkt.hostname = NoneStr
    /\ dloc.existing = <<>>
    /\ dloc.type # "none"

OctetsInUse ==
    {byHost[h].ip[4] : h \in DOMAIN byHost} \cup {leases[m].ip[4] : m \in DOMAIN leases}

SweepStep == spc' # spc \/ expired_macs' # expired_macs

(* C13: once the sweep has removed a lease, the allocator no longer  *)
(* counts that lease's last octet as taken.                          *)
C13_SweptIpFree ==
    [][\A m \in DOMAIN leases :
          (SweepStep /\ ~Has(leases', m))
            => leases[m].ip[4] \notin UsedOctets(byHost', leases')]_vars

(* C14: an ACK is never sent for a MAC whose stored lease has expired. *)
C14_NoAckOnExpiredLease ==
    [][(RequestAnswered /\ reply'.type = "ACK")
          => (Has(leases', pkt'.mac) /\ Unexpired(leases'[pkt'.mac]))]_vars

(* the handler is between the start and the end of a lease or *)
(* allocation mutation                                        *)
HandlerBusy == dpc \in {"getmac", "gethost", "dyn", "del", "txn", "save"}

(* C16: the cleanup thread takes no step while the handler is busy. *)
C16_SweepExcludesHandler ==
    [][SweepStep => ~HandlerBusy]_vars

(* C19: no exception leaves dhcp_packet_handler. *)
C19_HandlerNeverRaises == dpc # "crashed"

(* C17: a REQUEST that names another server is answered with neither ACK *)
(* nor NAK, and handling it changes neither the lease map, nor the set   *)
(* of allocated IPs, nor any key of the store; the handler is done with  *)
(* it in one step.                                                       *)
C17_OtherServerIgnored ==
    [][(dpc = "idle" /\ dpc' # "idle" /\ pkt'.kind = "REQUEST"
          /\ pkt'.server_id # NoneIp /\ pkt'.server_id # ServerIp)
          => /\ dpc' = "replied"
             /\ reply' = Ignored
             /\ UNCHANGED <<leases, allocated_ips, byMac, byHost, etcdLeases>>]_vars

(* a REQUEST to another server was ignored although it carried a new   *)
(* hostname for a MAC that holds a lease, mirrored in the store, under *)
(* another name                                                        *)
C17_IgnoredHostnameChange ==
    /\ dpc = "replied"
    /\ reply = Ignored
    /\ pkt.server_id = OtherServerIp
    /\ pkt.hostname = HostC01
    /\ Has(leases, pkt.mac)
    /\ leases[pkt.mac].hostname # pkt.hostname
    /\ Has(etcdLeases, Normalize(pkt.mac))

(* C18: the handling of a DISCOVER ends with one OFFER that carries what *)
(* get_or_create_lease returned (the unexpired lease it kept, or the     *)
(* allocation it made), or, when get_or_create_lease returned (None,     *)
(* None), with no packet; in that case the MAC has no lease in the map,  *)
(* and the lease mirror in the store is written by no step other than    *)
(* the one that follows a successful allocation.                         *)
C18_OfferOrSilence ==
    [][/\ (dpc # "replied" /\ dpc' = "replied" /\ pkt'.kind = "DISCOVER")
            => \/ /\ dpc = "idle"
                  /\ reply' = LeaseReply("OFFER", leases[pkt'.mac])
               \/ /\ dpc = "save"
                  /\ dloc.ip # NoneIp
                  /\ reply' = Reply("OFFER", dloc.ip, dloc.hostname)
               \/ /\ dpc \notin {"idle", "save"}
                  /\ reply' = Dropped
                  /\ ~Has(leases', pkt'.mac)
                  /\ etcdLeases' = etcdLeases
       /\ etcdLeases' # etcdLeases => (dpc = "save" /\ dloc.ip # NoneIp)
       /\ (dpc' = "crashed" /\ dpc # "crashed")
            => reply' = NoReply /\ UNCHANGED <<leases, etcdLeases>>]_vars

(* a DISCOVER was dropped after its allocation had deleted the old *)
(* by-hostname key and failed                                      *)
C18_DroppedAfterFailure ==
    /\ dpc = "replied"
    /\ pkt.kind = "DISCOVER"
    /\ reply = Dropped
    /\ ~Has(leases, pkt.mac)
    /\ Has(byMac, Normalize(pkt.mac))
    /\ ~Has(byHost, byMac[Normalize(pkt.mac)].hostname)
    /\ etcdLeases # EmptyMap

IsDynamicName(hostname, ip) ==
    /\ Len(ip) = 4
    /\ ip[4] \in DYNAMIC_IP_START..DYNAMIC_IP_END
    /\ ip = <<10, 0, 0, ip[4]>>
    /\ hostname = <<"d", "h", "c", "p", "-">> \o IntStr(ip[4])

(* the allocation for the packet in hand has just produced a lease *)
LeaseCreated == dpc \in {"getmac", "txn"} /\ dpc' = "save"

(* C20: no allocation record under either key and no lease ever carries *)
(* a hostname that ends in 'a'. An allocation for a packet whose        *)
(* hostname option ends in 'a' leaves the records as they are and       *)
(* leases the recorded hostname and IP when the MAC has a record, and   *)
(* makes a dhcp-{k} allocation from the dynamic range when it has none. *)
C20_NoAmtHostnameRegistered ==
    [][/\ \A m \in DOMAIN byMac' : ~EndsWithA(byMac'[m].hostname)
       /\ \A h \in DOMAIN byHost' : ~EndsWithA(h) /\ ~EndsWithA(byHost'[h].hostname)
       /\ \A m \in DOMAIN leases' : ~EndsWithA(leases'[m].hostname)
       /\ (LeaseCreated /\ EndsWithA(pkt.hostname))
            => LET n == Normalize(pkt.mac)
                   l == leases'[pkt.mac]
               IN IF Has(byMac, n)
                  THEN /\ UNCHANGED <<byMac, byHost>>
                       /\ l.hostname = byMac[n].hostname
                       /\ l.ip = byMac[n].ip
                  ELSE /\ IsDynamicName(l.hostname, l.ip)
                       /\ byMac'[n].hostname = l.hostname
                       /\ byHost'[l.hostname].mac = n]_vars

(* a DISCOVER that asked for c1a was offered the static name the MAC *)
(* already had                                                       *)
C20_AmtRequestKeptStaticName ==
    /\ dpc = "replied"
    /\ pkt.kind = "DISCOVER"
    /\ pkt.hostname = HostC1a
    /\ reply = Reply("OFFER", <<10, 0, 0, 51>>, HostC1)

(* get_or_create_lease is called for a MAC that has a lease in the map: *)
(* the handler takes a DISCOVER of that MAC                             *)
LookupWithLease ==
    /\ dpc = "idle"
    /\ dpc' # "idle"
    /\ pkt'.kind = "DISCOVER"
    /\ Has(leases, pkt'.mac)

(* the lookup discards the lease and goes on to allocate *)
LeaseDiscarded ==
    /\ dpc' = "getmac"
    /\ leases' = Del(leases, pkt'.mac)
    /\ allocated_ips' = allocated_ips \ {leases[pkt'.mac].ip}
    /\ dloc'.existing = <<>>
    /\ dloc'.ip = NoneIp

(* C12 as stated: every lookup before the lease's expires time returns *)
(* the lease; a lookup at or after it discards the lease, and a lease  *)
(* created afterwards expires a lease duration after the lookup.       *)
C12_LeaseReturnedUntilExpiry ==
    [][/\ LookupWithLease
            => IF leases[pkt'.mac].expires > now
               THEN /\ dpc' = "replied"
                    /\ reply' = LeaseReply("OFFER", leases[pkt'.mac])
                    /\ UNCHANGED <<leases, allocated_ips>>
               ELSE LeaseDiscarded
       /\ LeaseCreated => leases'[pkt.mac].expires = now + LEASE_TIME]_vars

(* the hostname option does not ask for another name than the lease's *)
SameNameAsked(hostname, lease) ==
    \/ hostname \in {NoneStr, EmptyStr}
    \/ hostname \in TemporaryHostnames
    \/ hostname = lease.hostname

(* C12: a lookup before the lease's expires time returns the lease when *)
(* the hostname option is absent, empty, a placeholder or the lease's   *)
(* hostname, and discards it when the option is another name; a lookup  *)
(* at or after expires discards the lease and goes on exactly as for a  *)
(* MAC without lease; every lease created expires a lease duration      *)
(* after the lookup.                                                    *)
C12_LeaseReturnedUntilExpiryOrRenamed ==
    [][/\ LookupWithLease
            => IF leases[pkt'.mac].expires > now
                  /\ SameNameAsked(pkt'.hostname, leases[pkt'.mac])
               THEN /\ dpc' = "replied"
                    /\ reply' = LeaseReply("OFFER", leases[pkt'.mac])
                    /\ UNCHANGED <<leases, allocated_ips>>
               ELSE /\ LeaseDiscarded
                    /\ dloc' = [Locals(<<>>, DropAmt(pkt'.hostname), NoneStr, NoneIp, "none")
                                   EXCEPT !.via = dloc'.via]
                    /\ dloc'.via = IF leases[pkt'.mac].expires > now
                                   THEN "changed" ELSE "expired"
       /\ LeaseCreated
            => /\ leases'[pkt.mac].expires = now + LEASE_TIME
               /\ leases'[pkt.mac].ip = dloc'.ip]_vars

(* a lookup at the very instant of expiry discarded the lease and made *)
(* a new one that expires a lease duration later                       *)
C12_ExpiredLeaseRenewed ==
    /\ dpc = "save"
    /\ pkt.kind = "DISCOVER"
    /\ dloc.via = "expired"
    /\ now = LEASE_TIME
    /\ Has(leases, pkt.mac)
    /\ leases[pkt.mac].expires = now + LEASE_TIME

(* the static form {s|c|m}{1..20} *)
ValidStatic(hostname) ==
    Truthy(hostname) /\ ~EndsWithA(hostname) /\ DhcpDetermineIp(hostname) # NoneIp

(* by-hostname/{hostname} is absent or belongs to the MAC *)
FreeFor(hostname, nmac) == ~Has(byHost, hostname) \/ byHost[hostname].mac = nmac

(* the allocation for a packet with a non-empty hostname option, from a *)
(* MAC whose lease was absent or expired, has just produced a lease     *)
NamedAllocation ==
    /\ LeaseCreated
    /\ dloc.via \in {"absent", "expired"}
    /\ Truthy(pkt.hostname)

C15_AckedLeaseIsFresh ==
    [][(RequestAnswered /\ reply'.type = "ACK")
          => (Has(leases', pkt'.mac)
                /\ leases'[pkt'.mac].expires = now + LEASE_TIME)]_vars

(* the static form {s|c|m}{n} with 1 <= n <= 20 *)
StaticForm(hostname) ==
    /\ Len(hostname) >= 2
    /\ hostname[1] \in {"s", "c", "m"}
    /\ AllDigits(Tail(hostname))
    /\ DigitsVal(Tail(hostname)) \in 1..20

(* deriveIP of a static-form hostname: 10.0.0.(base + n) with base 10 *)
(* for s, 50 for c and 90 for m                                       *)
DerivedIp(hostname) ==
    <<10, 0, 0,
      (CASE hostname[1] = "s" -> 10 [] hostname[1] = "c" -> 50 [] hostname[1] = "m" -> 90)
        + DigitsVal(Tail(hostname))>>

RecordIpDerived(rec) ==
    IF StaticForm(rec.hostname) THEN rec.ip = DerivedIp(rec.hostname)
    ELSE IsDynamicName(rec.hostname, rec.ip)

(* C21: every allocation record in the store, under by-mac or under     *)
(* by-hostname, whose hostname has the static form carries the IP       *)
(* derived from the hostname, and every other record is a dhcp-{k}      *)
(* record with the dynamic-range IP 10.0.0.k.                           *)
C21_StaticRecordsCarryDerivedIp ==
    /\ \A m \in DOMAIN byMac : RecordIpDerived(byMac[m])
    /\ \A h \in DOMAIN byHost : RecordIpDerived(byHost[h])

(* the store holds a static record written by the HTTP API (with amt_ip) *)
(* and a static record written by the DHCP engine (without)              *)
C21_BothWritersStoredStatic ==
    /\ \E h \in DOMAIN byHost :
          StaticForm(h) /\ byHost[h].hostname = h /\ Len(byHost[h].amt_ip) = 1
    /\ \E h \in DOMAIN byHost :
          StaticForm(h) /\ byHost[h].hostname = h /\ Len(byHost[h].amt_ip) = 0

BothCalled == httpOut # NotCalled /\ dhcpOut # NotCalled

(* C22: for every hostname string the HTTP API's and the DHCP engine's  *)
(* determine_ip_from_hostname end the same way: the same address, or    *)
(* the same kind of failure.                                            *)
C22_SameOutcomeForBothCallers == BothCalled => httpOut = dhcpOut

(* the recognised type letter with a number outside 1..20 *)
OutOfRangeInput(hostname) ==
    /\ Truthy(hostname)
    /\ hostname[1] \in {"s", "c", "m"}
    /\ IntOk(NumPart(hostname))
    /\ IntVal(NumPart(hostname)) \notin 1..20

(* an unrecognised letter or a suffix that is no number *)
InvalidFormatInput(hostname) ==
    /\ Truthy(hostname)
    /\ hostname[1] \notin {"s", "c", "m"} \/ ~IntOk(NumPart(hostname))

(* OutOfRange is the ValueError raised, InvalidHostnameFormat the None *)
(* returned                                                            *)
FailsAsClaimed(hostname, out) ==
    /\ OutOfRangeInput(hostname) => out = IpOutcome("raise", NoneIp)
    /\ InvalidFormatInput(hostname) => out = IpOutcome("none", NoneIp)

(* C23: in both callers the derivation fails one way (OutOfRange) for a *)
(* recognised type letter whose number is outside 1..20, and another    *)
(* way (InvalidHostnameFormat) for an unrecognised letter or a suffix   *)
(* that is no number; no address is returned in either case.            *)
C23_RangeAndFormatFailuresDiffer ==
    /\ httpOut # NotCalled => FailsAsClaimed(hname, httpOut)
    /\ dhcpOut # NotCalled => FailsAsClaimed(hname, dhcpOut)

(* worker w takes a step of a get_or_create_allocation call for a MAC *)
(* that has a by-mac record                                           *)
HttpStepWithRecord(w) ==
    /\ hpc'[w] # hpc[w]
    /\ Has(byMac, Normalize(IF hpc[w] = "idle" THEN hmac'[w] ELSE hmac[w]))

(* the by-mac record of m is replaced or removed *)
RecordChanged(m) == ~Has(byMac', m) \/ byMac'[m] # byMac[m]

(* the DHCP engine commits an allocation for a packet of m whose hostname *)
(* option names another hostname than the record of m                     *)
HostnameOptionChange(m) ==
    /\ dpc = "txn"
    /\ dpc' = "save"
    /\ Normalize(pkt.mac) = m
    /\ Truthy(pkt.hostname)
    /\ pkt.hostname # byMac[m].hostname

(* C24: a step of get_or_create_allocation for a MAC that has a stored   *)
(* record writes nothing: by-mac, by-hostname and the lease keys stay as *)
(* they are; and a by-mac record, once created, is replaced only by a    *)
(* DHCP allocation whose hostname option names another hostname.         *)
C24_ExistingRecordNeverRewritten ==
    [][/\ \A w \in Workers : HttpStepWithRecord(w) => UNCHANGED storeVars
       /\ \A m \in DOMAIN byMac : RecordChanged(m) => HostnameOptionChange(m)]_vars

(* C25: a call reuses the cached client exactly when its status check   *)
(* succeeds, and drops it and goes on to connect when it fails. The     *)
(* endpoints are tried in the configured order, pass after pass, at     *)
(* most max_retries * |hosts| times; the first endpoint whose status    *)
(* check succeeds is cached and returned at once, a failed one is       *)
(* followed by the next, and the connection error is raised only when   *)
(* every endpoint has failed in every pass, with no client cached.      *)
C25_BoundedOrderedReconnect ==
    [][/\ Len(tried') <= cmax' * 3
       /\ \A i \in 1..Len(tried') : tried'[i] = EtcdHosts[((i - 1) % 3) + 1]
       /\ (cpc = "status" /\ cpc' # "status")
            => IF cached \in up
               THEN cpc' = "done" /\ cret' = cached /\ cached' = cached
               ELSE cpc' = "connect" /\ cached' = NoClient /\ tried' = <<>>
       /\ (cpc = "connect" /\ tried' # tried)
            => IF tried'[Len(tried')] \in up
               THEN /\ cpc' = "done"
                    /\ cret' = tried'[Len(tried')]
                    /\ cached' = cret'
               ELSE cpc' = "connect" /\ cached' = NoClient
       /\ (cpc # "done" /\ cpc' = "done" /\ cret' = ConnectionError)
            => Len(tried) = cmax * 3 /\ cached' = NoClient]_vars

(* the cached client failed its check and the second pass over the *)
(* endpoints found e2                                              *)
C25_ReconnectedOnSecondPass ==
    /\ cpc = "done"
    /\ tried = <<"e1", "e2", "e3", "e1", "e2">>
    /\ cret = "e2"
    /\ cached = "e2"

(* a step of serving a health request: of do_GET itself, or of the *)
(* store client it has entered                                     *)
HealthStep ==
    \/ gpc' # gpc
    \/ gpc = "connecting" /\ <<cached, cpc, cpass, cidx, cret>>' # <<cached, cpc, cpass, cidx, cret>>

(* C26: no step of serving /health, /status or /leases changes the lease *)
(* map, the allocated-IP set, the running flag or the cached store       *)
(* client.                                                               *)
C26_HealthOnlyReads ==
    [][HealthStep => UNCHANGED <<leases, allocated_ips, running, etcd_client, cached>>]_vars

(* C27: every record that get_or_create_allocation returns has the *)
(* amt_ip field, whichever read of by-mac it came from.            *)
C27_ReturnedRecordHasAmtIp ==
    \A w \in Workers : HttpOk(w) => Len(hret[w].rec[1].amt_ip) = 1

(* the snapshot entry i is a lease with its MAC, under a key that is *)
(* not a normalized MAC                                              *)
LegacyEntry(i) ==
    /\ snap[i][1] \notin NormalizedKeys
    /\ snap[i][2].json
    /\ snap[i][2].mac # <<>>

(* the normalized key of snapshot entry i *)
NormalKeyOf(i) ==
    IF snap[i][1] \in NormalizedKeys THEN snap[i][1] ELSE Normalize(snap[i][1])

(* C28: when a migration has run through without a failed store call,   *)
(* every legacy lease of its snapshot is gone from its old key and, when *)
(* it was the only lease of its MAC, stands unchanged under the          *)
(* normalized key; every lease that was under a normalized key is there  *)
(* unchanged; and the migration of a second start changes nothing.       *)
C28_MigrationMovesLegacyOnly ==
    /\ (spos = "between" /\ ~serr)
          => \A i \in 1..Len(snap) :
                IF snap[i][1] \in NormalizedKeys
                THEN Has(etcdLeases, snap[i][1]) /\ etcdLeases[snap[i][1]] = snap[i][2]
                ELSE LegacyEntry(i)
                       => /\ ~Has(etcdLeases, snap[i][1])
                          /\ (\A j \in 1..Len(snap) : NormalKeyOf(j) = NormalKeyOf(i) => j = i)
                                => /\ Has(etcdLeases, NormalKeyOf(i))
                                   /\ etcdLeases[NormalKeyOf(i)] = snap[i][2]
    /\ (sruns = 2 /\ spos \in {"migrate", "between"} /\ ~serr)
          => Snapshot(etcdLeases) = snap

(* a stored value the load can take: JSON with mac and ip *)
Loadable(value) == value.json /\ value.mac # <<>> /\ value.ip # <<>>

(* C29: when the startup load is over and no store call has failed,   *)
(* every loadable lease record in the store has its entry in the      *)
(* in-memory map, with its IP, a hostname and an expiry, whatever     *)
(* other records the store holds.                                     *)
C29_EveryStoredLeaseLoaded ==
    (spos = "up" /\ ~serr)
        => \A k \in DOMAIN etcdLeases :
              Loadable(etcdLeases[k])
                => /\ Has(leases, etcdLeases[k].mac[1])
                   /\ leases[etcdLeases[k].mac[1]].ip # NoneIp
                   /\ leases[etcdLeases[k].mac[1]].ip \in allocated_ips

(* the part of get_or_create_allocation inside "with allocation_lock" *)
InLock(w) == hpc[w] \in {"reread", "scan", "txn"}

(* C30: with one API process, a thread is between the re-read and the   *)
(* commit only while it holds allocation_lock, so at most one thread is *)
(* there; every record a call returns is the record stored under its    *)
(* MAC key and under its hostname key; and two returned records have    *)
(* the same hostname exactly when the calls were for the same MAC.      *)
C30_ThreadsSerialized ==
    /\ \A w \in Threads : InLock(w) => lock[ProcOf(w)] = w
    /\ \A w \in Threads :
          HttpOk(w)
            => /\ Has(byMac, Normalize(hmac[w]))
               /\ byMac[Normalize(hmac[w])] = hret[w].rec[1]
               /\ Has(byHost, hret[w].rec[1].hostname)
               /\ byHost[hret[w].rec[1].hostname] = hret[w].rec[1]
    /\ \A w1, w2 \in Threads :
          (HttpOk(w1) /\ HttpOk(w2))
            => ((Normalize(hmac[w1]) = Normalize(hmac[w2]))
                    <=> (hret[w1].rec[1].hostname = hret[w2].rec[1].hostname))

(* two threads called for two unknown MACs of the same machine type,  *)
(* each went through scan and commit, and both have returned          *)
C30_TwoThreadsTwoNames ==
    /\ HttpOk("p1t1") /\ HttpOk("p1t2")
    /\ hret["p1t1"].rec = hdata["p1t1"] /\ hret["p1t2"].rec = hdata["p1t2"]
    /\ hmac["p1t1"] = MacS1 /\ hmac["p1t2"] = MacS2
    /\ hret["p1t1"].rec[1].hostname # hret["p1t2"].rec[1].hostname
    /\ hret["p1t1"].rec[1].type = hret["p1t2"].rec[1].type

(* the handler is allocating for a DISCOVER that carries a placeholder  *)
(* hostname, from a MAC that had no unexpired lease and has a record    *)
PlaceholderAllocates ==
    /\ pkt.kind = "DISCOVER"
    /\ pkt.hostname \in {HostUbuntuServer, HostLocalhost}
    /\ dloc.via \in {"absent", "expired"}
    /\ Has(byMac, Normalize(pkt.mac))

(* C31: while a DISCOVER with a placeholder hostname is handled for a   *)
(* MAC that has an allocation record and no unexpired lease, no step    *)
(* changes the record under the MAC key or removes or changes the       *)
(* record under its hostname key, and an OFFER that is sent carries the *)
(* record's hostname and IP.                                            *)
C31_PlaceholderKeepsRecord ==
    [][PlaceholderAllocates
         => LET rec == byMac[Normalize(pkt.mac)]
            IN /\ Has(byMac', Normalize(pkt.mac))
               /\ byMac'[Normalize(pkt.mac)] = rec
               /\ Has(byHost, rec.hostname)
                     => (Has(byHost', rec.hostname)
                           /\ byHost'[rec.hostname] = byHost[rec.hostname])
               /\ (reply = NoReply /\ reply'.type = "OFFER")
                     => (reply'.ip = rec.ip /\ reply'.hostname = rec.hostname)]_vars

(* C32: whenever the cleanup thread removes a lease from the map, that *)
(* lease's expires time has passed at that moment.                     *)
C32_SweepRemovesOnlyExpired ==
    [][\A m \in DOMAIN leases :
          (SweepStep /\ ~Has(leases', m)) => leases[m].expires <= now]_vars

(* the allocation that followed a hostname change has failed: the     *)
(* handler leaves the allocation without a lease to save. The lease   *)
(* that was torn down was unexpired: get_or_create_lease tears down   *)
(* for a changed name only an unexpired lease, and before LEASE_TIME  *)
(* has passed no lease has expired.                                   *)
ReallocationFailed ==
    /\ dpc \in {"getmac", "gethost", "dyn", "del", "txn"}
    /\ dpc' = "replied"
    /\ \/ dloc.via = "changed"
       \/ dloc.via = "request" /\ now < LEASE_TIME

(* C33: when the reallocation after a durable hostname change fails,   *)
(* the MAC still has a lease afterwards, and a record the MAC has      *)
(* under its MAC key is still there under its hostname key.            *)
C33_FailedChangeKeepsLease ==
    [][ReallocationFailed
          => /\ Has(leases', pkt.mac)
             /\ Has(byMac', Normalize(pkt.mac))
                   => Has(byHost', byMac'[Normalize(pkt.mac)].hostname)]_vars

(* the lease map and the records under dhcp/leases/ hold the same MACs *)
(* with the same records                                               *)
MirrorMatches ==
    /\ DOMAIN etcdLeases = {Normalize(m) : m \in DOMAIN leases}
    /\ \A m \in DOMAIN leases : etcdLeases[Normalize(m)] = leases[m]

(* C34: when a pass of the sweep is over, the MACs with a lease in the *)
(* map are the MACs with a record under dhcp/leases/, with equal       *)
(* records: a lease the sweep removed is gone from the store as well.  *)
C34_SweepKeepsMirror ==
    [][(SweepStep /\ spc' \in {"sleep", "failed"}) => MirrorMatches']_vars

(* the positive integers that the hostnames registered under a prefix *)
(* end in                                                             *)
RegisteredSuffixes(prefix) ==
    {n \in 1..RangeMax :
        \E h \in DOMAIN byHost :
            /\ Len(h) > 1 /\ h[1] = prefix
            /\ AllDigits(Tail(h)) /\ DigitsVal(Tail(h)) = n}

SmallestFree(prefix) ==
    CHOOSE i \in 1..(RangeMax + 1) :
        /\ i \notin RegisteredSuffixes(prefix)
        /\ \A j \in 1..(i - 1) : j \in RegisteredSuffixes(prefix)

(* C35: get_next_hostname returns the prefix followed by the smallest *)
(* positive integer that no registered hostname of the prefix ends    *)
(* in, and the DHCP engine's version, reading the same registry,      *)
(* returns the same hostname as the HTTP API's.                       *)
C35_NextHostnameIsSmallestFree ==
    /\ nhttp.kind = "scan"
          => nhttp.name = <<TypePrefix(ntype)>> \o IntStr(SmallestFree(TypePrefix(ntype)))
    /\ (nhttp.kind = "scan" /\ ndhcp.kind = "scan") => nhttp.name = ndhcp.name

(* two outcomes are addresses, and the same address only for one name *)
DistinctAddresses(name1, out1, name2, out2) ==
    /\ out1.kind = "ip" /\ out2.kind = "ip"
    /\ (out1.ip = out2.ip) <=> (name1 = name2)

C39_NoStaticAddressIsVip ==
    (hname \in StaticNames /\ hname[Len(hname)] # "a")
        => /\ httpOut.kind = "ip" => httpOut.ip \notin {storage_vip_ip, gateway_vip_ip}
           /\ dhcpOut.kind = "ip" => dhcpOut.ip \notin {storage_vip_ip, gateway_vip_ip}

(* the last octets of the dynamic range that no by-hostname record and *)
(* no lease uses                                                       *)
FreeOctets == {k \in 200..249 : k \notin OctetsInUse}

(* C38: when the auto-allocation asks for a dynamic address and the    *)
(* store answers, it fails exactly when every last octet of 200..249   *)
(* is in use by a by-hostname record or a lease, and otherwise goes on *)
(* with 10.0.0.k and hostname dhcp-k for the smallest k not in use;    *)
(* the record then written under both keys has that hostname and IP.   *)
C38_SmallestFreeDynamicIp ==
    [][/\ (dpc = "dyn" /\ dpc' # "crashed")
            => IF FreeOctets = {}
               THEN dpc' = "replied" /\ reply'.type # "OFFER" /\ UNCHANGED <<byMac, byHost, leases>>
               ELSE \E k \in FreeOctets :
                       /\ \A j \in FreeOctets : k <= j
                       /\ dpc' \in {"del", "txn"}
                       /\ dloc'.ip = <<10, 0, 0, k>>
                       /\ dloc'.hostname = <<"d", "h", "c", "p", "-">> \o IntStr(k)
       /\ (dpc = "txn" /\ dpc' = "save")
            => /\ byMac'[Normalize(pkt.mac)].hostname = dloc.hostname
               /\ byMac'[Normalize(pkt.mac)].ip = dloc.ip
               /\ byHost'[dloc.hostname] = byMac'[Normalize(pkt.mac)]]_vars

(* the range was full when a client asked, and it got nothing *)
C38_PoolExhausted ==
    /\ FreeOctets = {}
    /\ dpc = "replied"
    /\ reply = Dropped
    /\ pkt.mac = MacC1
    /\ Has(leases, MacS1) /\ leases[MacS1].ip = <<10, 0, 0, 249>>
    /\ byMac[Normalize(MacS1)].hostname = <<"d", "h", "c", "p", "-", "2", "4", "9">>

(* C37: while the process runs, a lease whose expires time has passed *)
(* leads to that MAC having no lease or a renewed one, whether or not *)
(* a pass of the sweep has raised in between.                         *)
C37_ExpiredLeaseEventuallyRemoved ==
    \A m \in DhcpMacs :
        (Has(leases, m) /\ leases[m].expires <= now)
            ~> \/ ~Has(leases, m)
               \/ leases[m].expires > now
               \/ dpc = "crashed"

(* a pass has raised on a MAC whose lease the handler had taken away, *)
(* and the expired lease of the other MAC is still in the map         *)
C37_PassRaisedLeaseWaiting ==
    /\ spc = "failed"
    /\ dpc # "crashed"
    /\ \E m \in DhcpMacs : Has(leases, m) /\ leases[m].expires <= now
====
